---------------------------- MODULE Spec2Model ----------------------------
(***************************************************************************)
(* A model of boxcutter.py: the streaming ISO-BMFF box engine.             *)
(*                                                                         *)
(* Byte strings (Python bytes) and text strings (Python str) are both      *)
(* sequences of character codes 0..255.  An optional value (Python None    *)
(* or a value) is a sequence of length 0 or 1.  An operator that models a  *)
(* Python function returns a record; its field exc names the exception     *)
(* the call raised ("" when it returned normally), and the other fields    *)
(* hold the state the call left behind and the value it returned.          *)
(***************************************************************************)
EXTENDS Integers, Sequences, FiniteSets, TLC

\* ------------------------------------------------------------------------
\* Bounds of the model
\* ------------------------------------------------------------------------

\* most boxes in an input stream
MaxBoxes == 2

\* most payload bytes of a box (after the inner 4CC for a brob box)
MaxPayload == 1

\* most bytes cut from the end of an input to truncate it
MaxCut == 2

\* most bytes of the plain text of a box that is compressed or decompressed
MaxPlain == 2

\* the largest decompressMax of a scan
MaxDecompMax == 3

\* most payload bytes written after a header that is read back
MaxHeaderPayload == 3

\* the largest byte count a client passes to a read or seek call
MaxRead == 2

\* most inputs of a CatReader, and most bytes of one of them
MaxFiles == 2

MaxFileLen == 2

\* the largest count or offset passed to a CatReader's read and seek
MaxSeek == 5

\* most boxes after the signature in an input of extractJxlCodestream
MaxJxlBoxes == 3

\* bytes of a codestream after FF 0A
MaxCodestream == 2

\* offsets in a list of splits
MaxSplits == 2

\* new boxes in a call of doAddBoxes or _writeBoxes
MaxNewBoxes == 2

\* ------------------------------------------------------------------------
\* Python values
\* ------------------------------------------------------------------------

None == <<>>

Some(x) == <<x>>

Val(o) == o[1]

Min(a, b) == IF a <= b THEN a ELSE b

\* the element of a one-element set: Only({F(x) : x \in {e}}) is F(e), with
\* e evaluated once
Only(S) == CHOOSE x \in S : TRUE

\* b[from:] of a Python sequence (from counted from 0)
From(b, from) == IF from >= Len(b) THEN <<>> ELSE SubSeq(b, from + 1, Len(b))

\* b[from:to]
Slice(b, from, to) == IF from >= Min(to, Len(b)) THEN <<>> ELSE SubSeq(b, from + 1, Min(to, Len(b)))

\* b[-4:]
Last4(b) == IF Len(b) <= 4 THEN b ELSE SubSeq(b, Len(b) - 3, Len(b))

\* bytes.startswith
StartsWith(b, p) == Len(b) >= Len(p) /\ SubSeq(b, 1, Len(p)) = p

\* one character of str.lower() / bytes.lower()
LowerChar(c) == IF c >= 65 /\ c <= 90 THEN c + 32 ELSE c

Lower(s) == [k \in 1..Len(s) |-> LowerChar(s[k])]

\* struct.unpack('>I', b) and struct.unpack('>Q', b): big-endian, Horner form
RECURSIVE BigEndian(_, _)
BigEndian(b, acc) == IF Len(b) = 0 THEN acc ELSE BigEndian(Tail(b), acc * 256 + Head(b))

UnpackI(b) == BigEndian(b, 0)

UnpackQ(b) == BigEndian(b, 0)

\* A Python int that may not fit the checker's integers (a box size of 2^32
\* and more): its sign, and its magnitude as nine base-256 digits, the most
\* significant first.  Wide(n) is the int n
Wide(n) == [neg |-> n < 0, mag |-> [k \in 1..9 |-> IF k <= 5 THEN 0 ELSE ((IF n < 0 THEN 0 - n ELSE n) \div (256 ^ (9 - k))) % 256]]

\* the digits of a + b and the carry out of digit k, for digit sequences
\* of one length
RECURSIVE WideCarry(_, _, _)
WideCarry(a, b, k) == IF k > Len(a) THEN 0 ELSE (a[k] + b[k] + WideCarry(a, b, k + 1)) \div 256

\* w + n for w >= 0 and a small n >= 0
WideAdd(w, n) == [neg |-> FALSE, mag |-> [k \in 1..9 |-> (w.mag[k] + Wide(n).mag[k] + WideCarry(w.mag, Wide(n).mag, k + 1)) % 256]]

\* a <= b
RECURSIVE MagLE(_, _, _)
MagLE(a, b, k) == IF k > Len(a) THEN TRUE ELSE IF a[k] # b[k] THEN a[k] < b[k] ELSE MagLE(a, b, k + 1)

WideLE(a, b) == IF a.neg THEN (~b.neg \/ MagLE(b.mag, a.mag, 1)) ELSE (~b.neg /\ MagLE(a.mag, b.mag, 1))

\* struct.pack('>I', w) and struct.pack('>Q', w): the bytes, or no bytes when
\* struct.error is raised because w does not fit
PackI(w) == IF w.neg \/ SubSeq(w.mag, 1, 5) # <<0, 0, 0, 0, 0>> THEN <<>> ELSE SubSeq(w.mag, 6, 9)

PackQ(w) == IF w.neg \/ w.mag[1] # 0 THEN <<>> ELSE SubSeq(w.mag, 2, 9)

\* struct.unpack('>I', b) and struct.unpack('>Q', b) as a wide int
UnpackWide(b) == [neg |-> FALSE, mag |-> [k \in 1..(9 - Len(b)) |-> 0] \o b]

\* ------------------------------------------------------------------------
\* Program constants
\* ------------------------------------------------------------------------

IO_BLOCK_SIZE == 16384

\* 0xFFFFFFFF, the largest size a 32-bit size field holds
BIG_SIZE == [neg |-> FALSE, mag |-> <<0, 0, 0, 0, 0, 255, 255, 255, 255>>]

MODE_KEEP == 0

MODE_DROP == 1

MODE_EXTRACT_FIRST == 2

MODE_COUNT == 3

MODE_HAS == 4

RAW_JXL == -1

FAILED_PARSE == -2

DECOMP_TOO_BIG == -3

COMPRESS_NEVER == 1

COMPRESS_AUTO == 2

COMPRESS_ALWAYS == 3

DECOMPRESS_NEVER == 100

DECOMPRESS_ALWAYS == 101

\* b'brob', b'ftyp', b'jbrd', b'jxl'
brob == <<98, 114, 111, 98>>

ftyp == <<102, 116, 121, 112>>

jbrd == <<106, 98, 114, 100>>

jxl == <<106, 120, 108>>

\* b'\xff\n', the first two bytes of a raw JPEG XL codestream
RawMagic == <<255, 10>>

jxlc == <<106, 120, 108, 99>>

jxlp == <<106, 120, 108, 112>>

jxll == <<106, 120, 108, 108>>

\* JXL_CONTAINER_SIG = b'\0\0\0\x0cJXL \r\n\x87\n'
JXL_CONTAINER_SIG == <<0, 0, 0, 12, 74, 88, 76, 32, 13, 10, 135, 10>>

isValid4cc(bytes4) == Len(bytes4) = 4 /\ \A k \in 1..Len(bytes4) : bytes4[k] >= 32 /\ bytes4[k] <= 126

\* ------------------------------------------------------------------------
\* File objects: io.BytesIO / a regular file (seekable) or a pipe (not)
\* ------------------------------------------------------------------------

\* f.read(n) at position pos of a stream holding data; n < 0 reads to the end
FileRead(data, pos, n) == IF pos >= Len(data) THEN <<>> ELSE SubSeq(data, pos + 1, IF n < 0 THEN Len(data) ELSE Min(pos + n, Len(data)))

\* dst.write(b) at the sink's position: overwrites, then extends
SinkWrite(snk, b) == [snk EXCEPT !.data = SubSeq(snk.data, 1, Min(snk.pos, Len(snk.data))) \o b \o From(snk.data, snk.pos + Len(b)), !.pos = snk.pos + Len(b)]

\* copyData(src, dst, count): the block loop; out is what was written to dst
RECURSIVE copyDataLoop(_, _, _, _, _)
copyDataLoop(data, pos, count, done, out) ==
  IF count < 0 \/ done < count
  THEN LET want == IF count >= 0 THEN Min(IO_BLOCK_SIZE, count - done) ELSE IO_BLOCK_SIZE
           block == FileRead(data, pos, want)
       IN IF Len(block) = 0
          THEN [exc |-> IF count >= 0 THEN "IOError" ELSE "", done |-> done, out |-> out, pos |-> pos]
          ELSE copyDataLoop(data, pos + Len(block), count, done + Len(block), out \o block)
  ELSE [exc |-> "", done |-> done, out |-> out, pos |-> pos]

copyData(data, pos, count) == copyDataLoop(data, pos, count, 0, <<>>)

\* ------------------------------------------------------------------------
\* BoxDetails and BoxReader
\* ------------------------------------------------------------------------

BoxDetails(offset, length, boxtype, hasExtendedSize) == [offset |-> offset, length |-> length, boxtype |-> boxtype, hasExtendedSize |-> hasExtendedSize]

\* BoxReader.open: the reader's fields after construction; pos is the
\* position of the underlying file object
BoxReaderOpen == [pos |-> 0, _index |-> -1, _currentBoxDetail |-> None, _currentBoxHeader |-> None, _nextBoxOffset |-> Some(0), _clientBoxDataOffset |-> -1, _clientIsReadingFull |-> FALSE, _clientIsReadingPayload |-> FALSE, _eof |-> FALSE, _off |-> 0, _doneIter |-> FALSE]

\* BoxReader._read
_read(rd, data, count, allowZero, allowShort) ==
  LET d == FileRead(data, rd.pos, count)
      dlen == Len(d)
      bad == count # -1 /\ dlen # count /\ ~(allowZero /\ dlen = 0) /\ ~(allowShort /\ dlen < count)
  IN [rd |-> [rd EXCEPT !.pos = @ + dlen, !._off = @ + dlen], data |-> d, exc |-> IF bad THEN "InvalidBmffError" ELSE ""]

\* BoxReader._seekBy on a non-seekable file: read and discard
RECURSIVE _seekByLoop(_, _, _, _, _)
_seekByLoop(rd, data, count, exact, done) ==
  IF done < count
  THEN LET block == FileRead(data, rd.pos, Min(IO_BLOCK_SIZE, count - done))
           rd1 == [rd EXCEPT !.pos = @ + Len(block), !._off = @ + Len(block)]
       IN IF Len(block) = 0
          THEN [rd |-> rd1, ret |-> done, exc |-> IF exact THEN "InvalidBmffError" ELSE ""]
          ELSE _seekByLoop(rd1, data, count, exact, done + Len(block))
  ELSE [rd |-> rd, ret |-> done, exc |-> ""]

\* BoxReader._seekBy: a seekable file takes any position at or after 0, also
\* one past its end; a negative target makes seek() raise
_seekBy(rd, data, seekable, count, exact) ==
  IF seekable
  THEN IF rd.pos + count < 0
       THEN [rd |-> rd, ret |-> 0, exc |-> "ValueError"]
       ELSE [rd |-> [rd EXCEPT !.pos = @ + count, !._off = @ + count], ret |-> count, exc |-> ""]
  ELSE IF count < 0
       THEN [rd |-> rd, ret |-> 0, exc |-> "UsageError"]
       ELSE _seekByLoop(rd, data, count, exact, 0)

\* nextBoxParse without `if not isValid4cc(newBox.boxtype)` and without
\* `if newBox.length > 0 and newBox.length < len(self._currentBoxHeader)`
nextBoxParseUnchecked(rd, h, e) ==
  LET size32 == Slice(h.data, 0, 4)
      isExt == size32 = <<0, 0, 0, 1>>
      header == IF isExt THEN h.data \o e.data ELSE h.data
      length == IF isExt THEN UnpackQ(e.data) ELSE UnpackI(size32)
      isZero == IF isExt THEN e.data = <<0, 0, 0, 0, 0, 0, 0, 0>> ELSE size32 = <<0, 0, 0, 0>>
      boxtype == Slice(header, 4, 8)
      rd3 == [(IF isExt THEN e.rd ELSE h.rd) EXCEPT !._currentBoxHeader = Some(header), !._eof = isZero]
      newBox == BoxDetails(Val(rd._nextBoxOffset), length, boxtype, isExt)
  IN IF isExt /\ e.exc # "" THEN [rd |-> [e.rd EXCEPT !._currentBoxHeader = Some(h.data)], box |-> None, exc |-> e.exc]
     ELSE [rd |-> [rd3 EXCEPT !._currentBoxDetail = Some(newBox), !._nextBoxOffset = IF length > 0 THEN Some(Val(rd._nextBoxOffset) + length) ELSE None], box |-> Some(newBox), exc |-> ""]

\* BoxReader.nextBox, after the box header was read: h is the outcome of
\* _read(8, allowZero=True), e that of the _read(8) of an extended size.
\* Whether the length is 1 or 0 is read off the bytes, so that the length
\* of a header with an invalid type is never computed
nextBoxParse(rd, h, e) ==
  LET size32 == Slice(h.data, 0, 4)
      isExt == size32 = <<0, 0, 0, 1>>
      header == IF isExt THEN h.data \o e.data ELSE h.data
      length == IF isExt THEN UnpackQ(e.data) ELSE UnpackI(size32)
      isZero == IF isExt THEN e.data = <<0, 0, 0, 0, 0, 0, 0, 0>> ELSE size32 = <<0, 0, 0, 0>>
      boxtype == Slice(header, 4, 8)
      rd3 == [(IF isExt THEN e.rd ELSE h.rd) EXCEPT !._currentBoxHeader = Some(header), !._eof = isZero]
      newBox == BoxDetails(Val(rd._nextBoxOffset), length, boxtype, isExt)
  IN IF isExt /\ e.exc # "" THEN [rd |-> [e.rd EXCEPT !._currentBoxHeader = Some(h.data)], box |-> None, exc |-> e.exc]
     ELSE IF ~isValid4cc(boxtype) THEN [rd |-> rd3, box |-> None, exc |-> "InvalidBmffError"]
     ELSE IF length > 0 /\ length < Len(header) THEN [rd |-> rd3, box |-> None, exc |-> "InvalidBmffError"]
     ELSE [rd |-> [rd3 EXCEPT !._currentBoxDetail = Some(newBox), !._nextBoxOffset = IF length > 0 THEN Some(Val(rd._nextBoxOffset) + length) ELSE None], box |-> Some(newBox), exc |-> ""]

\* BoxReader.nextBox, from the header read on: rd has been advanced to the
\* next box, its index and client fields reset
nextBoxHeader(rd, data, h) ==
  IF h.exc # "" THEN [rd |-> h.rd, box |-> None, exc |-> h.exc]
  ELSE IF h.rd._index = 0 /\ StartsWith(h.data, RawMagic) /\ ~isValid4cc(From(h.data, 4))
  THEN [rd |-> [h.rd EXCEPT !._currentBoxHeader = Some(h.data)], box |-> None, exc |-> "RawJxlError"]
  ELSE IF Len(h.data) = 0
  THEN [rd |-> [h.rd EXCEPT !._currentBoxHeader = Some(h.data), !._eof = TRUE, !._index = -1, !._clientBoxDataOffset = -1], box |-> None, exc |-> ""]
  ELSE Only({nextBoxParse(rd, h, e) : e \in {_read(h.rd, data, 8, FALSE, FALSE)}})

\* BoxReader.nextBox, after the seek to the next box: s is the outcome of
\* _seekBy
nextBoxSeeked(s, data) ==
  IF s.exc # "" THEN [rd |-> s.rd, box |-> None, exc |-> s.exc]
  ELSE Only({nextBoxHeader(r, data, _read(r, data, 8, TRUE, FALSE)) : r \in {[s.rd EXCEPT !._index = @ + 1, !._clientBoxDataOffset = 0, !._clientIsReadingFull = FALSE, !._clientIsReadingPayload = FALSE]}})

\* BoxReader.nextBox
nextBox(rd, data, seekable) ==
  IF rd._eof THEN [rd |-> [rd EXCEPT !._index = -1], box |-> None, exc |-> ""]
  ELSE Only({nextBoxSeeked(s, data) : s \in {_seekBy(rd, data, seekable, Val(rd._nextBoxOffset) - rd._off, TRUE)}})

\* copyCurrentBox without `self._off += bytesCopied`
copyCurrentBoxOffLost(rd, data, n) ==
  LET header == Val(rd._currentBoxHeader)
      detail == Val(rd._currentBoxDetail)
      availableHeaderBytes == Len(header) - rd._clientBoxDataOffset
      fromHeader == availableHeaderBytes > 0
      wantH == IF n >= 0 THEN Min(availableHeaderBytes, n) ELSE availableHeaderBytes
      headOut == IF fromHeader THEN Slice(header, rd._clientBoxDataOffset, rd._clientBoxDataOffset + wantH) ELSE <<>>
      rd1 == [rd EXCEPT !._clientIsReadingFull = TRUE, !._clientBoxDataOffset = IF fromHeader THEN @ + wantH ELSE @]
      totalCopied == IF fromHeader THEN wantH ELSE 0
      availablePayloadBytes == detail.length - rd1._clientBoxDataOffset
      want == IF detail.length > 0
              THEN (IF n >= 0 THEN Min(availablePayloadBytes, n - totalCopied) ELSE availablePayloadBytes)
              ELSE -1
      c == copyData(data, rd1.pos, want)
      rd2 == [rd1 EXCEPT !.pos = c.pos, !._clientBoxDataOffset = @ + c.done]
  IN IF rd._clientIsReadingPayload THEN [rd |-> rd, out |-> <<>>, ret |-> 0, exc |-> "UsageError"]
     ELSE IF rd._clientBoxDataOffset < 0 THEN [rd |-> rd, out |-> <<>>, ret |-> 0, exc |-> "UsageError"]
     ELSE IF rd._currentBoxHeader = None THEN [rd |-> [rd EXCEPT !._clientIsReadingFull = TRUE], out |-> <<>>, ret |-> 0, exc |-> "TypeError"]
     ELSE IF fromHeader /\ totalCopied = n THEN [rd |-> rd1, out |-> headOut, ret |-> totalCopied, exc |-> ""]
     ELSE IF rd._currentBoxDetail = None THEN [rd |-> rd1, out |-> headOut, ret |-> 0, exc |-> "AttributeError"]
     ELSE IF c.exc # "" THEN [rd |-> [rd1 EXCEPT !.pos = c.pos], out |-> headOut \o c.out, ret |-> 0, exc |-> c.exc]
     ELSE IF c.done # want /\ want # -1 THEN [rd |-> rd2, out |-> headOut \o c.out, ret |-> 0, exc |-> "InvalidBmffError"]
     ELSE [rd |-> rd2, out |-> headOut \o c.out, ret |-> totalCopied + c.done, exc |-> ""]

\* BoxReader.copyCurrentBox(to, n): out is what was written to `to`.  After a
\* nextBox that raised, the header or the box details may still be None:
\* len(None) raises TypeError, None.length raises AttributeError
copyCurrentBox(rd, data, n) ==
  LET header == Val(rd._currentBoxHeader)
      detail == Val(rd._currentBoxDetail)
      availableHeaderBytes == Len(header) - rd._clientBoxDataOffset
      fromHeader == availableHeaderBytes > 0
      wantH == IF n >= 0 THEN Min(availableHeaderBytes, n) ELSE availableHeaderBytes
      headOut == IF fromHeader THEN Slice(header, rd._clientBoxDataOffset, rd._clientBoxDataOffset + wantH) ELSE <<>>
      rd1 == [rd EXCEPT !._clientIsReadingFull = TRUE, !._clientBoxDataOffset = IF fromHeader THEN @ + wantH ELSE @]
      totalCopied == IF fromHeader THEN wantH ELSE 0
      availablePayloadBytes == detail.length - rd1._clientBoxDataOffset
      want == IF detail.length > 0
              THEN (IF n >= 0 THEN Min(availablePayloadBytes, n - totalCopied) ELSE availablePayloadBytes)
              ELSE -1
      c == copyData(data, rd1.pos, want)
      rd2 == [rd1 EXCEPT !.pos = c.pos, !._off = @ + c.done, !._clientBoxDataOffset = @ + c.done]
  IN IF rd._clientIsReadingPayload THEN [rd |-> rd, out |-> <<>>, ret |-> 0, exc |-> "UsageError"]
     ELSE IF rd._clientBoxDataOffset < 0 THEN [rd |-> rd, out |-> <<>>, ret |-> 0, exc |-> "UsageError"]
     ELSE IF rd._currentBoxHeader = None THEN [rd |-> [rd EXCEPT !._clientIsReadingFull = TRUE], out |-> <<>>, ret |-> 0, exc |-> "TypeError"]
     ELSE IF fromHeader /\ totalCopied = n THEN [rd |-> rd1, out |-> headOut, ret |-> totalCopied, exc |-> ""]
     ELSE IF rd._currentBoxDetail = None THEN [rd |-> rd1, out |-> headOut, ret |-> 0, exc |-> "AttributeError"]
     ELSE IF c.exc # "" THEN [rd |-> [rd1 EXCEPT !.pos = c.pos], out |-> headOut \o c.out, ret |-> 0, exc |-> c.exc]
     ELSE IF c.done # want /\ want # -1 THEN [rd |-> rd2, out |-> headOut \o c.out, ret |-> 0, exc |-> "InvalidBmffError"]
     ELSE [rd |-> rd2, out |-> headOut \o c.out, ret |-> totalCopied + c.done, exc |-> ""]

\* BoxReader.readCurrentBox(n): the bytes are returned only if no exception
readCurrentBox(rd, data, n) ==
  LET c == copyCurrentBox(rd, data, n)
  IN [rd |-> c.rd, data |-> IF c.exc = "" THEN c.out ELSE <<>>, exc |-> c.exc]

\* copyCurrentBoxPayload without the `if self._clientIsReadingFull` check
copyCurrentBoxPayloadUnchecked(rd, data, n) ==
  LET header == Val(rd._currentBoxHeader)
      detail == Val(rd._currentBoxDetail)
      rest == detail.length - Len(header) - rd._clientBoxDataOffset
      maxRead == IF detail.length = 0 THEN (IF n >= 0 THEN n ELSE -1)
                 ELSE (IF n >= 0 THEN Min(rest, n) ELSE rest)
      allowShort == IF detail.length = 0 THEN TRUE ELSE n <= maxRead
      c == copyData(data, rd.pos, maxRead)
      rd1 == [rd EXCEPT !._clientIsReadingPayload = TRUE]
      rd2 == [rd1 EXCEPT !.pos = c.pos, !._off = @ + c.done, !._clientBoxDataOffset = @ + c.done]
  IN IF rd._clientBoxDataOffset < 0 THEN [rd |-> rd, out |-> <<>>, ret |-> 0, exc |-> "UsageError"]
     ELSE IF rd._currentBoxDetail = None THEN [rd |-> rd1, out |-> <<>>, ret |-> 0, exc |-> "AttributeError"]
     ELSE IF c.exc # "" THEN [rd |-> [rd1 EXCEPT !.pos = c.pos], out |-> c.out, ret |-> 0, exc |-> c.exc]
     ELSE IF ~allowShort /\ c.done # maxRead THEN [rd |-> rd2, out |-> c.out, ret |-> 0, exc |-> "InvalidBmffError"]
     ELSE [rd |-> rd2, out |-> c.out, ret |-> c.done, exc |-> ""]

\* copyCurrentBoxPayload without `maxRead = min(maxRead, n)`: n bytes are
\* copied whatever is left of the box
copyCurrentBoxPayloadUnbounded(rd, data, n) ==
  LET header == Val(rd._currentBoxHeader)
      detail == Val(rd._currentBoxDetail)
      rest == detail.length - Len(header) - rd._clientBoxDataOffset
      maxRead == IF detail.length = 0 THEN (IF n >= 0 THEN n ELSE -1)
                 ELSE (IF n >= 0 THEN n ELSE rest)
      allowShort == IF detail.length = 0 THEN TRUE ELSE n <= maxRead
      c == copyData(data, rd.pos, maxRead)
      rd1 == [rd EXCEPT !._clientIsReadingPayload = TRUE]
      rd2 == [rd1 EXCEPT !.pos = c.pos, !._off = @ + c.done, !._clientBoxDataOffset = @ + c.done]
  IN IF rd._clientIsReadingFull THEN [rd |-> rd, out |-> <<>>, ret |-> 0, exc |-> "UsageError"]
     ELSE IF rd._clientBoxDataOffset < 0 THEN [rd |-> rd, out |-> <<>>, ret |-> 0, exc |-> "UsageError"]
     ELSE IF rd._currentBoxDetail = None THEN [rd |-> rd1, out |-> <<>>, ret |-> 0, exc |-> "AttributeError"]
     ELSE IF c.exc # "" THEN [rd |-> [rd1 EXCEPT !.pos = c.pos], out |-> c.out, ret |-> 0, exc |-> c.exc]
     ELSE IF ~allowShort /\ c.done # maxRead THEN [rd |-> rd2, out |-> c.out, ret |-> 0, exc |-> "InvalidBmffError"]
     ELSE [rd |-> rd2, out |-> c.out, ret |-> c.done, exc |-> ""]

\* BoxReader.copyCurrentBoxPayload(to, n)
copyCurrentBoxPayload(rd, data, n) ==
  LET header == Val(rd._currentBoxHeader)
      detail == Val(rd._currentBoxDetail)
      rest == detail.length - Len(header) - rd._clientBoxDataOffset
      maxRead == IF detail.length = 0 THEN (IF n >= 0 THEN n ELSE -1)
                 ELSE (IF n >= 0 THEN Min(rest, n) ELSE rest)
      allowShort == IF detail.length = 0 THEN TRUE ELSE n <= maxRead
      c == copyData(data, rd.pos, maxRead)
      rd1 == [rd EXCEPT !._clientIsReadingPayload = TRUE]
      rd2 == [rd1 EXCEPT !.pos = c.pos, !._off = @ + c.done, !._clientBoxDataOffset = @ + c.done]
  IN IF rd._clientIsReadingFull THEN [rd |-> rd, out |-> <<>>, ret |-> 0, exc |-> "UsageError"]
     ELSE IF rd._clientBoxDataOffset < 0 THEN [rd |-> rd, out |-> <<>>, ret |-> 0, exc |-> "UsageError"]
     ELSE IF rd._currentBoxDetail = None THEN [rd |-> rd1, out |-> <<>>, ret |-> 0, exc |-> "AttributeError"]
     ELSE IF c.exc # "" THEN [rd |-> [rd1 EXCEPT !.pos = c.pos], out |-> c.out, ret |-> 0, exc |-> c.exc]
     ELSE IF ~allowShort /\ c.done # maxRead THEN [rd |-> rd2, out |-> c.out, ret |-> 0, exc |-> "InvalidBmffError"]
     ELSE [rd |-> rd2, out |-> c.out, ret |-> c.done, exc |-> ""]

\* BoxReader.readCurrentBoxPayload(n): the bytes are returned only if no
\* exception
readCurrentBoxPayload(rd, data, n) ==
  LET c == copyCurrentBoxPayload(rd, data, n)
  IN [rd |-> c.rd, data |-> IF c.exc = "" THEN c.out ELSE <<>>, exc |-> c.exc]

\* BoxReader.seekCurrentBox(n) (full) and seekCurrentBoxPayload(n), from the
\* loop on: blocks are read and dropped while remain > 0
RECURSIVE seekCurrentLoop(_, _, _, _, _)
seekCurrentLoop(rd, data, n, remain, full) ==
  IF remain > 0
  THEN LET want == Min(remain, IO_BLOCK_SIZE)
           skipped == IF full THEN readCurrentBox(rd, data, want) ELSE readCurrentBoxPayload(rd, data, want)
       IN IF skipped.exc # "" THEN [rd |-> skipped.rd, ret |-> 0, exc |-> skipped.exc]
          ELSE IF Len(skipped.data) < want THEN [rd |-> skipped.rd, ret |-> n - (remain - Len(skipped.data)), exc |-> ""]
          ELSE seekCurrentLoop(skipped.rd, data, n, remain - Len(skipped.data), full)
  ELSE [rd |-> rd, ret |-> n, exc |-> ""]

seekCurrentBox(rd, data, n) == seekCurrentLoop(rd, data, n, n, TRUE)

seekCurrentBoxPayload(rd, data, n) == seekCurrentLoop(rd, data, n, n, FALSE)

\* ------------------------------------------------------------------------
\* CatReader: _files are the inputs as file objects (a bytes input is an
\* io.BytesIO: bytes is TRUE), each with its own position and closed or
\* not; _currentFileIx counts from 0
\* ------------------------------------------------------------------------

SEEK_SET == 0

SEEK_CUR == 1

SEEK_END == 2

\* CatReader.__init__(closeFiles, *files)
CatReaderOpen(closeFiles, files) == [_off |-> 0, _files |-> files, _sizes |-> [k \in 1..Len(files) |-> -1], _mustClose |-> [k \in 1..Len(files) |-> closeFiles \/ files[k].bytes], _currentFileIx |-> 0, _eof |-> Len(files) = 0, closed |-> FALSE]

\* `if self._mustClose[self._currentFileIx]:` and the two lines under it
CatCloseCurrent(c) ==
  IF c._mustClose[c._currentFileIx + 1] THEN [c EXCEPT !._files[c._currentFileIx + 1].closed = TRUE, !._mustClose[c._currentFileIx + 1] = FALSE] ELSE c

\* CatReader.close(): i counts from 0 over the files from the current one
\* on, and _mustClose is indexed by i
CatReader_close(c) ==
  [c EXCEPT !._files = [k \in 1..Len(c._files) |-> IF k > c._currentFileIx /\ c._mustClose[k - c._currentFileIx] THEN [c._files[k] EXCEPT !.closed = TRUE] ELSE c._files[k]],
            !._currentFileIx = Len(c._files), !._eof = TRUE, !.closed = TRUE]

\* CatReader.__exit__
CatReader_exit(c) == IF c.closed THEN c ELSE CatReader_close(c)

\* CatReader.read(n) for n # -1, from the loop on; indexing _files past its
\* end raises IndexError
RECURSIVE CatReadLoop(_, _, _)
CatReadLoop(c, stillWant, returndata) ==
  IF c._currentFileIx >= Len(c._files) THEN [cat |-> c, data |-> <<>>, exc |-> "IndexError"]
  ELSE LET ix == c._currentFileIx + 1
           data == FileRead(c._files[ix].data, c._files[ix].pos, stillWant)
           c1 == [c EXCEPT !._files[ix].pos = @ + Len(data), !._off = @ + Len(data)]
       IN IF stillWant - Len(data) = 0 THEN [cat |-> c1, data |-> returndata \o data, exc |-> ""]
          ELSE IF c._currentFileIx = Len(c._files) - 1 THEN [cat |-> [c1 EXCEPT !._eof = TRUE], data |-> returndata \o data, exc |-> ""]
          ELSE CatReadLoop([CatCloseCurrent(c1) EXCEPT !._currentFileIx = @ + 1], stillWant - Len(data), returndata \o data)

\* CatReader.readall, from the loop on; it ends with `eof = True`, which
\* sets a local name and leaves self._eof as it was
RECURSIVE CatReadallLoop(_, _)
CatReadallLoop(c, returndata) ==
  IF c._currentFileIx < Len(c._files)
  THEN LET ix == c._currentFileIx + 1
           data == FileRead(c._files[ix].data, c._files[ix].pos, -1)
       IN CatReadallLoop([CatCloseCurrent([c EXCEPT !._files[ix].pos = @ + Len(data), !._off = @ + Len(data)]) EXCEPT !._currentFileIx = @ + 1], returndata \o data)
  ELSE [cat |-> c, data |-> returndata, exc |-> ""]

CatReader_readall(c) == IF c._eof THEN [cat |-> c, data |-> <<>>, exc |-> ""] ELSE CatReadallLoop(c, <<>>)

\* CatReader.read(n)
CatReader_read(c, n) ==
  IF n = -1 THEN CatReader_readall(c)
  ELSE IF c._eof THEN [cat |-> c, data |-> <<>>, exc |-> ""]
  ELSE CatReadLoop(c, n, <<>>)

\* CatReader.tell()
CatReader_tell(c) == c._off

\* CatReader.seek on a current file that is not seekable: read and discard.
\* done: stillWant reached 0 and seek returns; else the file is at its end
RECURSIVE CatSeekDiscard(_, _)
CatSeekDiscard(c, stillWant) ==
  LET ix == c._currentFileIx + 1
      want == Min(IO_BLOCK_SIZE, stillWant)
      ignored == FileRead(c._files[ix].data, c._files[ix].pos, want)
      skipped == Len(ignored)
      c1 == [c EXCEPT !._files[ix].pos = @ + skipped, !._off = @ + skipped]
  IN IF stillWant - skipped = 0 THEN [cat |-> c1, stillWant |-> 0, done |-> TRUE]
     ELSE IF skipped < want THEN [cat |-> c1, stillWant |-> stillWant - skipped, done |-> FALSE]
     ELSE CatSeekDiscard(c1, stillWant - skipped)

\* CatReader.seek, from the outer loop on.  A seekable file is an
\* io.BytesIO: a relative seek to before its start goes to 0, one past its
\* end stays there.  On a file that is not seekable a negative stillWant
\* makes the inner loop read to the end of the file and then spin for ever
\* (the read returns nothing, stillWant stays, 0 < want is false): "Hang"
RECURSIVE CatSeekLoop(_, _)
CatSeekLoop(c, stillWant) ==
  IF c._currentFileIx >= Len(c._files) THEN [cat |-> c, ret |-> 0, exc |-> "IndexError"]
  ELSE LET ix == c._currentFileIx + 1
           currentFile == c._files[ix]
           isLastFile == c._currentFileIx = Len(c._files) - 1
           startedAt == currentFile.pos
           size == IF ~isLastFile /\ c._sizes[ix] = -1 THEN Len(currentFile.data) ELSE c._sizes[ix]
           local == ~isLastFile /\ startedAt + stillWant >= size
           sought == IF startedAt + stillWant < 0 THEN 0 ELSE startedAt + stillWant
           skipped == IF local THEN size - startedAt ELSE sought - startedAt
           c1 == [c EXCEPT !._sizes[ix] = size, !._files[ix].pos = IF local THEN @ ELSE sought, !._off = @ + skipped]
           d == CatSeekDiscard(c, stillWant)
           c2 == IF currentFile.seekable THEN c1 ELSE d.cat
           stillWant2 == IF currentFile.seekable THEN stillWant - skipped ELSE d.stillWant
       IN IF currentFile.seekable /\ stillWant - skipped <= 0 THEN [cat |-> c1, ret |-> c1._off, exc |-> ""]
          ELSE IF ~currentFile.seekable /\ stillWant < 0 THEN [cat |-> c, ret |-> 0, exc |-> "Hang"]
          ELSE IF ~currentFile.seekable /\ d.done THEN [cat |-> d.cat, ret |-> d.cat._off, exc |-> ""]
          ELSE IF isLastFile THEN [cat |-> [c2 EXCEPT !._eof = TRUE], ret |-> c2._off, exc |-> ""]
          ELSE CatSeekLoop([c2 EXCEPT !._currentFileIx = @ + 1], stillWant2)

\* CatReader.seek(n, whence)
CatReader_seek(c, n, whence) ==
  IF whence = SEEK_SET /\ n - c._off < 0 THEN [cat |-> c, ret |-> 0, exc |-> "IOError"]
  ELSE IF whence \notin {SEEK_SET, SEEK_CUR} THEN [cat |-> c, ret |-> 0, exc |-> "IOError"]
  ELSE IF c._eof THEN [cat |-> [c EXCEPT !._off = @ + (IF whence = SEEK_SET THEN n - c._off ELSE n)], ret |-> IF whence = SEEK_SET THEN n ELSE c._off + n, exc |-> ""]
  ELSE CatSeekLoop(c, IF whence = SEEK_SET THEN n - c._off ELSE n)

\* BoxReader.nextBox on the first box of data, with sizes of any width: the
\* header is read, the size fields unpacked, type and length checked
nextBoxWide(data) ==
  LET h == Slice(data, 0, 8)
      isExt == Slice(h, 0, 4) = <<0, 0, 0, 1>>
      e == Slice(data, 8, 16)
      header == IF isExt THEN h \o e ELSE h
      length == UnpackWide(IF isExt THEN e ELSE Slice(h, 0, 4))
      boxtype == Slice(h, 4, 8)
      short == WideLE(length, Wide(Len(header) - 1)) /\ length # Wide(0)
  IN IF Len(h) = 0 THEN [box |-> None, eof |-> TRUE, exc |-> ""]
     ELSE IF Len(h) # 8 THEN [box |-> None, eof |-> FALSE, exc |-> "InvalidBmffError"]
     ELSE IF StartsWith(h, RawMagic) /\ ~isValid4cc(From(h, 4)) THEN [box |-> None, eof |-> FALSE, exc |-> "RawJxlError"]
     ELSE IF isExt /\ Len(e) # 8 THEN [box |-> None, eof |-> FALSE, exc |-> "InvalidBmffError"]
     ELSE IF ~isValid4cc(boxtype) \/ short THEN [box |-> None, eof |-> length = Wide(0), exc |-> "InvalidBmffError"]
     ELSE [box |-> Some(BoxDetails(0, length, boxtype, isExt)), eof |-> length = Wide(0), exc |-> ""]

\* ------------------------------------------------------------------------
\* BoxSpec
\* ------------------------------------------------------------------------

\* the position (from 0) of the first occurrence of sep in s at or after k,
\* or -1: str.find
RECURSIVE Find(_, _, _)
Find(s, sep, k) ==
  IF k + Len(sep) > Len(s) THEN -1
  ELSE IF SubSeq(s, k + 1, k + Len(sep)) = sep THEN k
  ELSE Find(s, sep, k + 1)

\* s.split(sep, maxsplit=1)
Split1(s, sep) == LET k == Find(s, sep, 0) IN IF k < 0 THEN <<s>> ELSE <<Slice(s, 0, k), From(s, k + Len(sep))>>

IsDigits(s) == Len(s) > 0 /\ \A k \in 1..Len(s) : s[k] >= 48 /\ s[k] <= 57

RECURSIVE Decimal(_, _)
Decimal(s, acc) == IF Len(s) = 0 THEN acc ELSE Decimal(Tail(s), acc * 10 + (Head(s) - 48))

\* int(s) for a string of decimal digits with an optional sign; any other
\* string is a ValueError (None)
ParseInt(s) ==
  IF IsDigits(s) THEN Some(Decimal(s, 0))
  ELSE IF Len(s) > 1 /\ s[1] = 45 /\ IsDigits(Tail(s)) THEN Some(0 - Decimal(Tail(s), 0))
  ELSE IF Len(s) > 1 /\ s[1] = 43 /\ IsDigits(Tail(s)) THEN Some(Decimal(Tail(s), 0))
  ELSE None

\* the members of a character class [stuff] of a glob pattern
RECURSIVE ClassHas(_, _)
ClassHas(stuff, c) ==
  IF Len(stuff) = 0 THEN FALSE
  ELSE IF Len(stuff) >= 3 /\ stuff[2] = 45 THEN (stuff[1] <= c /\ c <= stuff[3]) \/ ClassHas(From(stuff, 3), c)
  ELSE stuff[1] = c \/ ClassHas(Tail(stuff), c)

\* the position (from 0) of the ']' that closes the class opened just
\* before position k of pat, or -1 if it is not closed
ClassEnd(pat, k) ==
  LET j1 == IF k < Len(pat) /\ pat[k + 1] = 33 THEN k + 1 ELSE k
      j2 == IF j1 < Len(pat) /\ pat[j1 + 1] = 93 THEN j1 + 1 ELSE j1
  IN Find(pat, <<93>>, j2)

\* fnmatch.fnmatchcase(name, pat): '*', '?', '[seq]', '[!seq]'
RECURSIVE fnmatchcase(_, _)
fnmatchcase(name, pat) ==
  IF Len(pat) = 0 THEN Len(name) = 0
  ELSE IF pat[1] = 42 THEN fnmatchcase(name, Tail(pat)) \/ (Len(name) > 0 /\ fnmatchcase(Tail(name), pat))
  ELSE IF pat[1] = 63 THEN Len(name) > 0 /\ fnmatchcase(Tail(name), Tail(pat))
  ELSE IF pat[1] = 91 /\ ClassEnd(pat, 1) >= 0
  THEN LET j == ClassEnd(pat, 1)
           neg == pat[2] = 33
           stuff == Slice(pat, IF neg THEN 2 ELSE 1, j)
       IN Len(name) > 0 /\ (ClassHas(stuff, name[1]) # neg) /\ fnmatchcase(Tail(name), From(pat, j + 1))
  ELSE Len(name) > 0 /\ name[1] = pat[1] /\ fnmatchcase(Tail(name), Tail(pat))

\* a BoxSpec with no constraint: the fields BoxSpec.__init__ starts with
BoxSpecDefault == [boxtype |-> None, typeIsWildcard |-> FALSE, typeCaseInsensitive |-> FALSE, typeIncludesBrobs |-> TRUE, instanceRange |-> None, indexRange |-> None]

\* BoxSpec.__init__, the 'i' property: val is 'LO..HI', 'LO..', '..HI', '..' or 'N'
BoxSpecIndex(val) ==
  LET limits == Split1(val, <<46, 46>>)
      lo == IF Len(limits[1]) = 0 THEN Some(None) ELSE (IF ParseInt(limits[1]) = None THEN None ELSE Some(ParseInt(limits[1])))
      hi == IF Len(limits) < 2 THEN lo
            ELSE IF Len(limits[2]) = 0 THEN Some(None)
            ELSE IF ParseInt(limits[2]) = None THEN None ELSE Some(ParseInt(limits[2]))
  IN IF lo = None \/ hi = None THEN [spec |-> BoxSpecDefault, exc |-> "InvalidBoxSpec"]
     ELSE [spec |-> [BoxSpecDefault EXCEPT !.indexRange = Some(<<Val(lo), Val(hi)>>)], exc |-> ""]

\* a BoxSpec of a type property that looks inside brob boxes however the
\* property is written
BoxSpecTypeAlwaysInner(prop, val) == [BoxSpecDefault EXCEPT !.typeIsWildcard = Lower(prop)[Len(prop)] = 126, !.typeCaseInsensitive = Lower(prop)[1] = 105, !.typeIncludesBrobs = TRUE, !.boxtype = Some(IF Lower(prop)[1] = 105 THEN Lower(val) ELSE val)]

\* BoxSpec.__init__, the type properties: type, TYPE, itype, ITYPE, each with
\* an optional trailing '~'
BoxSpecType(prop, val) ==
  LET propLower == Lower(prop)
      wild == propLower[Len(propLower)] = 126
      prop1 == IF wild THEN Slice(prop, 0, Len(prop) - 1) ELSE prop
      insens == propLower[1] = 105
      prop2 == IF insens THEN Tail(prop1) ELSE prop1
  IN [BoxSpecDefault EXCEPT !.typeIsWildcard = wild, !.typeCaseInsensitive = insens, !.typeIncludesBrobs = (prop2 # <<84, 89, 80, 69>>), !.boxtype = Some(IF insens THEN Lower(val) ELSE val)]

\* BoxSpec.__init__(boxspec)
BoxSpecInit(boxspec) ==
  LET propertyValue == Split1(boxspec, <<61>>)
      prop == propertyValue[1]
      val == propertyValue[2]
  IN IF Len(boxspec) = 0 THEN [spec |-> BoxSpecDefault, exc |-> ""]
     ELSE IF Len(propertyValue) # 2 THEN [spec |-> BoxSpecDefault, exc |-> "InvalidBoxSpec"]
     ELSE IF prop = <<105>> THEN BoxSpecIndex(val)
     ELSE IF Lower(prop) \in {<<116, 121, 112, 101>>, <<105, 116, 121, 112, 101>>, <<116, 121, 112, 101, 126>>, <<105, 116, 121, 112, 101, 126>>}
     THEN [spec |-> BoxSpecType(prop, val), exc |-> ""]
     ELSE [spec |-> BoxSpecDefault, exc |-> "InvalidBoxSpec"]

\* BoxSpec.matches(i, box, innerType, instance); innerType is optional
BoxSpecMatches(self, i, box, innerType, instance) ==
  LET ir == Val(self.indexRange)
      inst == Val(self.instanceRange)
      effectiveType0 == IF ~self.typeIncludesBrobs \/ innerType = None THEN box.boxtype ELSE Val(innerType)
      effectiveType == IF self.typeCaseInsensitive THEN Lower(effectiveType0) ELSE effectiveType0
  IN IF self.indexRange # None /\ ((ir[1] # None /\ i < Val(ir[1])) \/ (ir[2] # None /\ i > Val(ir[2]))) THEN FALSE
     ELSE IF self.instanceRange # None /\ (instance < inst[1] \/ instance > inst[2]) THEN FALSE
     ELSE IF self.boxtype # None
     THEN (IF self.typeIsWildcard THEN fnmatchcase(effectiveType, Val(self.boxtype)) ELSE effectiveType = Val(self.boxtype))
     ELSE TRUE

\* any(map(lambda b : b.matches(...), boxspecs)) over a list of BoxSpec
AnyMatches(specs, i, box, innerType, instance) == \E k \in 1..Len(specs) : BoxSpecMatches(specs[k], i, box, innerType, instance)

\* boxspecStringsToBoxspecList: the '@jxl' and '@JXL' aliases expand in place
RECURSIVE boxspecStringsToBoxspecList(_)
boxspecStringsToBoxspecList(strings) ==
  IF Len(strings) = 0 THEN <<>>
  ELSE LET s == Head(strings)
           isAlias == s \in {<<64, 106, 120, 108>>, <<64, 74, 88, 76>>}
           small == <<BoxSpecInit(<<73, 84, 89, 80, 69, 126, 61, 106, 120, 108, 42>>).spec, BoxSpecInit(<<84, 89, 80, 69, 61>> \o ftyp).spec>>
           big == <<BoxSpecInit(<<84, 89, 80, 69, 61>> \o jbrd).spec, BoxSpecInit(<<116, 121, 112, 101, 61, 69, 120, 105, 102>>).spec, BoxSpecInit(<<116, 121, 112, 101, 61, 120, 109, 108, 32>>).spec, BoxSpecInit(<<116, 121, 112, 101, 61, 106, 117, 109, 98>>).spec>>
           here == IF isAlias THEN (IF s = <<64, 74, 88, 76>> THEN small \o big ELSE small) ELSE <<BoxSpecInit(s).spec>>
       IN here \o boxspecStringsToBoxspecList(Tail(strings))

\* ------------------------------------------------------------------------
\* CompressionOpts
\* ------------------------------------------------------------------------

DEFAULT_BROTLI_EFFORT == 11

\* CompressionOpts.__init__ with its default arguments
CompressionOptsDefault == [effort |-> DEFAULT_BROTLI_EFFORT, compressWhen |-> COMPRESS_NEVER, compressBoxes |-> None, recompress |-> FALSE, decompressWhen |-> DECOMPRESS_NEVER, decompressBoxes |-> None, decompressMax |-> -1, protectJxl |-> TRUE]

_isProtectedType(boxtype) == StartsWith(Lower(boxtype), jxl) \/ boxtype \in {ftyp, jbrd}

\* getAction with `self.compressWhen != CompressionOpts.COMPRESS_AUTO` left out
\* of the test of protectJxl
getActionAutoUnprotected(self, i, box, innerType, instance) ==
  IF /\ self.compressWhen # COMPRESS_NEVER
     /\ (~self.protectJxl \/ ~_isProtectedType(box.boxtype))
     /\ (self.recompress \/ box.boxtype # brob)
     /\ (self.compressBoxes = None \/ AnyMatches(Val(self.compressBoxes), i, box, innerType, instance))
  THEN self.compressWhen
  ELSE IF /\ self.decompressWhen # DECOMPRESS_NEVER
          /\ box.boxtype = brob
          /\ (self.decompressBoxes = None \/ AnyMatches(Val(self.decompressBoxes), i, box, innerType, instance))
  THEN DECOMPRESS_ALWAYS
  ELSE COMPRESS_NEVER

\* CompressionOpts.getAction(i, box, innerType, instance)
getAction(self, i, box, innerType, instance) ==
  IF /\ self.compressWhen # COMPRESS_NEVER
     /\ ((~self.protectJxl /\ self.compressWhen # COMPRESS_AUTO) \/ ~_isProtectedType(box.boxtype))
     /\ (self.recompress \/ box.boxtype # brob)
     /\ (self.compressBoxes = None \/ AnyMatches(Val(self.compressBoxes), i, box, innerType, instance))
  THEN self.compressWhen
  ELSE IF /\ self.decompressWhen # DECOMPRESS_NEVER
          /\ box.boxtype = brob
          /\ (self.decompressBoxes = None \/ AnyMatches(Val(self.decompressBoxes), i, box, innerType, instance))
  THEN DECOMPRESS_ALWAYS
  ELSE COMPRESS_NEVER

\* ------------------------------------------------------------------------
\* The brotli module.  The library is not part of the repository; it is
\* modelled by a streaming codec with the same interface, whose stream is
\* the pair (1, 255 - b) for every byte b and then a closing 0.  A stream
\* never equals its plain text, a stream without its closing 0 is not
\* finished, and any other byte where a 1 or 0 is due is an error.
\* ------------------------------------------------------------------------

\* brotli.Compressor.process(data)
BrotliCompress(data) == [k \in 1..(2 * Len(data)) |-> IF k % 2 = 1 THEN 1 ELSE 255 - data[k \div 2]]

\* brotli.Compressor.finish()
BrotliFinish == <<0>>

\* brotli.Decompressor(): fin is is_finished(), pend that a literal is due
BrotliDecompressor == [fin |-> FALSE, pend |-> FALSE]

\* brotli.Decompressor.process(data): a byte is a flag or a literal by its
\* position; stop is the first flag that is not 1 (0 when there is none),
\* lim the last byte before it, out the literals up to lim.  A flag other
\* than 0 and 1, and any byte after the closing 0, raise brotli.error
BrotliDecompress(d, data) ==
  LET n == Len(data)
      first == IF d.pend THEN 2 ELSE 1
      ends == {k \in 1..n : k % 2 = first % 2 /\ data[k] # 1}
      stop == IF ends = {} THEN 0 ELSE CHOOSE k \in ends : \A j \in ends : k <= j
      lim == IF stop = 0 THEN n ELSE stop - 1
      out == [j \in 1..((lim + 2 - first) \div 2) |-> 255 - data[2 * j + 1 - first]]
  IN IF n = 0 THEN [d |-> d, out |-> <<>>, exc |-> ""]
     ELSE IF d.fin THEN [d |-> d, out |-> <<>>, exc |-> "brotli.error"]
     ELSE IF stop = 0 THEN [d |-> [d EXCEPT !.pend = (n % 2 = first % 2)], out |-> out, exc |-> ""]
     ELSE IF data[stop] # 0 \/ stop < n THEN [d |-> d, out |-> out, exc |-> "brotli.error"]
     ELSE [d |-> [fin |-> TRUE, pend |-> FALSE], out |-> out, exc |-> ""]

\* ------------------------------------------------------------------------
\* writeBoxHeader, _copyAndCompress, _copyAndDecompress
\* ------------------------------------------------------------------------

\* writeBoxHeader with `boxSize < BIG_SIZE` for `boxSize <= BIG_SIZE`
writeBoxHeaderBelow(boxtype, payloadSize) ==
  LET boxSize == WideAdd(payloadSize, 8)
      boxSize16 == WideAdd(boxSize, 8)
  IN IF payloadSize.neg THEN [out |-> <<0, 0, 0, 0>> \o boxtype, ret |-> 8, exc |-> ""]
     ELSE IF WideLE(boxSize, BIG_SIZE) /\ boxSize # BIG_SIZE THEN [out |-> PackI(boxSize) \o boxtype, ret |-> 8, exc |-> ""]
     ELSE IF PackQ(boxSize16) = <<>> THEN [out |-> <<0, 0, 0, 1>> \o boxtype, ret |-> 0, exc |-> "struct.error"]
     ELSE [out |-> <<0, 0, 0, 1>> \o boxtype \o PackQ(boxSize16), ret |-> 16, exc |-> ""]

\* writeBoxHeader(to, boxtype, payloadSize), payloadSize a wide int: out is
\* what was written to `to`, ret the value returned
writeBoxHeader(boxtype, payloadSize) ==
  LET boxSize == WideAdd(payloadSize, 8)
      boxSize16 == WideAdd(boxSize, 8)
  IN IF payloadSize.neg THEN [out |-> <<0, 0, 0, 0>> \o boxtype, ret |-> 8, exc |-> ""]
     ELSE IF WideLE(boxSize, BIG_SIZE) THEN [out |-> PackI(boxSize) \o boxtype, ret |-> 8, exc |-> ""]
     ELSE IF PackQ(boxSize16) = <<>> THEN [out |-> <<0, 0, 0, 1>> \o boxtype, ret |-> 0, exc |-> "struct.error"]
     ELSE [out |-> <<0, 0, 0, 1>> \o boxtype \o PackQ(boxSize16), ret |-> 16, exc |-> ""]

\* the decompressMax check with >= for >
TooMuchDataAtLimit(decompressMax, wrote) == decompressMax > 0 /\ wrote >= decompressMax

\* `decompressMax > 0 and wrote > decompressMax`
TooMuchData(decompressMax, wrote) == decompressMax > 0 /\ wrote > decompressMax

\* _copyAndCompress(dst, reader, effort), from its first loop on: the rest of
\* the current box is read with readCurrentBox and its compressed form
\* written to dst; wrote counts the bytes written
RECURSIVE _copyAndCompressLoop(_, _, _, _)
_copyAndCompressLoop(dst, rd, data, wrote) ==
  LET r == readCurrentBox(rd, data, IO_BLOCK_SIZE)
      compBlock == BrotliCompress(r.data)
  IN IF r.exc # "" THEN [rd |-> r.rd, dst |-> dst, wrote |-> wrote, exc |-> r.exc]
     ELSE IF Len(r.data) = 0 THEN [rd |-> r.rd, dst |-> SinkWrite(dst, BrotliFinish), wrote |-> wrote + Len(BrotliFinish), exc |-> ""]
     ELSE _copyAndCompressLoop(SinkWrite(dst, compBlock), r.rd, data, wrote + Len(compBlock))

_copyAndCompress(dst, rd, data) == _copyAndCompressLoop(dst, rd, data, 0)

\* _copyAndDecompress, its second loop: process(b'') of a decompressor that
\* has produced all it can returns nothing, so an unfinished stream raises
_copyAndDecompressEnd(dst, rd, dec, wrote) == [rd |-> rd, dst |-> dst, wrote |-> wrote, exc |-> IF dec.fin THEN "" ELSE "BoxCutterException"]

\* _copyAndDecompress(dst, reader, decompressMax), from its first loop on
RECURSIVE _copyAndDecompressLoop(_, _, _, _, _, _)
_copyAndDecompressLoop(dst, rd, data, decompressMax, dec, wrote) ==
  LET r == readCurrentBox(rd, data, IO_BLOCK_SIZE)
      p == BrotliDecompress(dec, r.data)
  IN IF r.exc # "" THEN [rd |-> r.rd, dst |-> dst, wrote |-> wrote, exc |-> r.exc]
     ELSE IF Len(r.data) = 0 THEN _copyAndDecompressEnd(dst, r.rd, dec, wrote)
     ELSE IF p.exc # "" THEN [rd |-> r.rd, dst |-> dst, wrote |-> wrote, exc |-> p.exc]
     ELSE IF TooMuchData(decompressMax, wrote + Len(p.out)) THEN [rd |-> r.rd, dst |-> dst, wrote |-> wrote + Len(p.out), exc |-> "TooMuchDataError"]
     ELSE _copyAndDecompressLoop(SinkWrite(dst, p.out), r.rd, data, decompressMax, p.d, wrote + Len(p.out))

_copyAndDecompress(dst, rd, data, decompressMax) == _copyAndDecompressLoop(dst, rd, data, decompressMax, BrotliDecompressor, 0)

\* ------------------------------------------------------------------------
\* scanBoxes, one step at a time: fetch the next box, peek at it, dispatch
\* on the mode.  c holds the arguments of the call, s its local variables
\* ------------------------------------------------------------------------

\* seen[t] of the defaultdict
SeenGet(seen, t) == IF t \in DOMAIN seen THEN seen[t] ELSE 0

\* seen[t] += 1
SeenInc(seen, t) == IF t \in DOMAIN seen THEN [seen EXCEPT ![t] = @ + 1] ELSE seen @@ (t :> 1)

\* scanBoxes at its first line: the locals, a BoxReader opened on src, and
\* dst (the bytes written to the sink, its position, and whether it is
\* seekable: an io.BytesIO or a regular file is, a pipe is not)
ScanStart == [rd |-> BoxReaderOpen, dst |-> [data |-> <<>>, pos |-> 0, seekable |-> TRUE], i |-> -1, box |-> None, innerType |-> <<>>, boxStart |-> <<>>, matches |-> FALSE, seen |-> <<>>, matchCount |-> 0, writtenFinalBox |-> FALSE, pc |-> "iter", result |-> None, exc |-> "", code |-> None]

\* `return v` from inside `with BoxReader(src) as reader`: the reader is closed
ScanReturn(s, v) == [s EXCEPT !.pc = "returned", !.result = Some(v), !.rd._eof = TRUE]

\* an exception leaves the loop: RawJxlError and InvalidBmffError are caught
\* and turned into return values, every other exception propagates
ScanExcept(s, e) ==
  IF e = "RawJxlError" THEN ScanReturn(s, RAW_JXL)
  ELSE IF e = "InvalidBmffError" THEN ScanReturn(s, FAILED_PARSE)
  ELSE [s EXCEPT !.pc = "raised", !.exc = e, !.rd._eof = TRUE]

\* the value scanBoxes returns when the loop ends
ScanFinal(c, s) == IF c.mode = MODE_EXTRACT_FIRST THEN 1 ELSE IF c.mode = MODE_COUNT THEN s.matchCount ELSE 0

\* `for i,box in enumerate(reader)`: fetch the next box or leave the loop
IterNextStep(c, s) ==
  LET n == nextBox([s.rd EXCEPT !._doneIter = TRUE], c.src, c.srcSeekable)
  IN IF n.exc # "" THEN ScanExcept([s EXCEPT !.rd = n.rd], n.exc)
     ELSE IF n.box = None THEN ScanReturn([s EXCEPT !.rd = n.rd], ScanFinal(c, s))
     ELSE [s EXCEPT !.rd = n.rd, !.box = n.box, !.i = @ + 1, !.pc = "peek"]

\* matches = boxspecs is None or any(b.matches(...) for b in boxspecs)
ScanMatches(c, s, innerType) == c.boxspecs = None \/ AnyMatches(Val(c.boxspecs), s.i, Val(s.box), Some(innerType), SeenGet(s.seen, innerType))

\* the head of the loop body, for a box that is not a brob box
PeekPlain(c, s) == [s EXCEPT !.innerType = Val(s.box).boxtype, !.boxStart = <<>>, !.matches = ScanMatches(c, s, Val(s.box).boxtype), !.pc = "body"]

\* the head of the loop body, for a brob box: the inner type is read with
\* the box header, by readCurrentBox(12 or 20)
PeekBrobRead(c, s, want, r) ==
  IF r.exc # "" THEN ScanExcept([s EXCEPT !.rd = r.rd], r.exc)
  ELSE IF Len(r.data) # want \/ ~isValid4cc(Last4(r.data))
  THEN ScanExcept([s EXCEPT !.rd = r.rd, !.boxStart = r.data, !.innerType = Last4(r.data)], "InvalidBmffError")
  ELSE [s EXCEPT !.rd = r.rd, !.boxStart = r.data, !.innerType = Last4(r.data), !.matches = ScanMatches(c, s, Last4(r.data)), !.pc = "body"]

PeekBrob(c, s) == Only({PeekBrobRead(c, s, want, readCurrentBox(s.rd, c.src, want)) : want \in {IF Val(s.box).hasExtendedSize THEN 20 ELSE 12}})

\* the head of the loop body: innerType, boxStart and matches
PeekStep(c, s) == IF Val(s.box).boxtype = brob THEN PeekBrob(c, s) ELSE PeekPlain(c, s)

\* which branch of the loop body the box takes
ScanBranch(c, s) ==
  IF c.mode = MODE_EXTRACT_FIRST /\ s.matches THEN "extract"
  ELSE IF (c.mode = MODE_KEEP /\ s.matches) \/ (c.mode = MODE_DROP /\ ~s.matches) THEN "copy"
  ELSE IF c.mode \in {MODE_COUNT, MODE_HAS} /\ s.matches THEN "count"
  ELSE "skip"

\* the end of the loop body: seen[innerType] += 1
ScanSeen(s) == [s EXCEPT !.seen = SeenInc(@, s.innerType), !.pc = "iter"]

\* the outcome of a copy (copyCurrentBox, copyCurrentBoxPayload) into dst at
\* the end of the loop body: what it wrote is in dst also when it raised
ScanCopied(s, d, cp, after) ==
  IF cp.exc # "" THEN ScanExcept([s EXCEPT !.rd = cp.rd, !.dst = SinkWrite(d, cp.out)], cp.exc)
  ELSE IF after = "return" THEN ScanReturn([s EXCEPT !.rd = cp.rd, !.dst = SinkWrite(d, cp.out)], 0)
  ELSE ScanSeen([s EXCEPT !.rd = cp.rd, !.dst = SinkWrite(d, cp.out)])

\* MODE_EXTRACT_FIRST and the box matches: write its payload and return 0
ScanExtract(c, s) ==
  IF c.compOpts.decompressWhen # DECOMPRESS_NEVER /\ Val(s.box).boxtype = brob
  THEN Only({IF cd.exc # "" THEN ScanExcept([s EXCEPT !.rd = cd.rd, !.dst = cd.dst], cd.exc) ELSE ScanReturn([s EXCEPT !.rd = cd.rd, !.dst = cd.dst], 0) : cd \in {_copyAndDecompress(s.dst, s.rd, c.src, c.compOpts.decompressMax)}})
  ELSE IF Len(s.boxStart) > 0
  THEN ScanCopied(s, SinkWrite(s.dst, Last4(s.boxStart)), copyCurrentBox(s.rd, c.src, -1), "return")
  ELSE ScanCopied(s, s.dst, copyCurrentBoxPayload(s.rd, c.src, -1), "return")

\* ScanPatchSize without `dst.seek(endPos)`: the sink is left after the size
\* field it went back to
ScanPatchSizeNoSeekBack(s, w, newBoxSize) ==
  IF w.exc # "" THEN ScanExcept([s EXCEPT !.rd = w.rd, !.dst = w.dst], w.exc)
  ELSE IF w.dst.seekable /\ WideLE(Wide(newBoxSize), BIG_SIZE)
  THEN ScanSeen([s EXCEPT !.rd = w.rd, !.dst = SinkWrite([w.dst EXCEPT !.pos = @ - newBoxSize], PackI(Wide(newBoxSize)))])
  ELSE ScanSeen([s EXCEPT !.rd = w.rd, !.dst = w.dst, !.writtenFinalBox = TRUE])

\* after a box was compressed or decompressed into dst (w is the outcome,
\* newBoxSize the bytes written for the box): go back and write the size
\* field, or leave it as it is and set writtenFinalBox
ScanPatchSize(s, w, newBoxSize) ==
  IF w.exc # "" THEN ScanExcept([s EXCEPT !.rd = w.rd, !.dst = w.dst], w.exc)
  ELSE IF w.dst.seekable /\ WideLE(Wide(newBoxSize), BIG_SIZE)
  THEN ScanSeen([s EXCEPT !.rd = w.rd, !.dst = [SinkWrite([w.dst EXCEPT !.pos = @ - newBoxSize], PackI(Wide(newBoxSize))) EXCEPT !.pos = w.dst.pos]])
  ELSE ScanSeen([s EXCEPT !.rd = w.rd, !.dst = w.dst, !.writtenFinalBox = TRUE])

\* the box is written decompressed (compAction is DECOMPRESS_ALWAYS) or
\* compressed (COMPRESS_ALWAYS, COMPRESS_AUTO)
ScanRecode(c, s, compAction) ==
  IF compAction = DECOMPRESS_ALWAYS
  THEN Only({ScanPatchSize(s, cd, writeBoxHeader(s.innerType, Wide(0)).ret + cd.wrote) : cd \in {_copyAndDecompress(SinkWrite(s.dst, writeBoxHeader(s.innerType, Wide(0)).out), s.rd, c.src, c.compOpts.decompressMax)}})
  ELSE IF Val(s.box).boxtype = brob THEN ScanExcept(s, "NotImplementedError")
  ELSE Only({ScanPatchSize(s, cc, writeBoxHeader(brob, Wide(0)).ret + Len(Val(s.box).boxtype) + cc.wrote) : cc \in {_copyAndCompress(SinkWrite(SinkWrite(s.dst, writeBoxHeader(brob, Wide(0)).out), Val(s.box).boxtype), s.rd, c.src)}})

\* the box is copied to dst: as it is, compressed or decompressed
ScanCopyBox(c, s, compAction) ==
  IF compAction = COMPRESS_NEVER
  THEN ScanCopied(s, SinkWrite(s.dst, s.boxStart), copyCurrentBox(s.rd, c.src, -1), "next")
  ELSE ScanRecode(c, s, compAction)

\* ScanCopy without the `if writtenFinalBox` check
ScanCopyUnchecked(c, s) == Only({ScanCopyBox(c, s, compAction) : compAction \in {getAction(c.compOpts, s.i, Val(s.box), Some(s.innerType), SeenGet(s.seen, s.innerType))}})

\* MODE_KEEP and the box matches, or MODE_DROP and it does not: copy the box
ScanCopy(c, s) ==
  IF s.writtenFinalBox THEN ScanExcept(s, "UnseekableOutputError")
  ELSE Only({ScanCopyBox(c, s, compAction) : compAction \in {getAction(c.compOpts, s.i, Val(s.box), Some(s.innerType), SeenGet(s.seen, s.innerType))}})

\* MODE_COUNT or MODE_HAS and the box matches
ScanCount(c, s) == IF c.mode = MODE_HAS THEN ScanReturn(s, 1) ELSE ScanSeen([s EXCEPT !.matchCount = @ + 1])

\* the rest of the loop body
BodyStep(c, s) ==
  IF ScanBranch(c, s) = "extract" THEN ScanExtract(c, s)
  ELSE IF ScanBranch(c, s) = "copy" THEN ScanCopy(c, s)
  ELSE IF ScanBranch(c, s) = "count" THEN ScanCount(c, s)
  ELSE ScanSeen(s)

\* one step of scanBoxes
ScanStep(c, s) == IF s.pc = "iter" THEN IterNextStep(c, s) ELSE IF s.pc = "peek" THEN PeekStep(c, s) ELSE BodyStep(c, s)

\* scanBoxes run from s until it returns or raises
RECURSIVE ScanRun(_, _)
ScanRun(c, s) == IF s.pc \in {"returned", "raised"} THEN s ELSE ScanRun(c, ScanStep(c, s))

\* boxspecStringsToBoxspecList(boxspecStrings) of an optional list
ParseSelectors(boxspecStrings) == IF boxspecStrings = None THEN None ELSE Some(boxspecStringsToBoxspecList(Val(boxspecStrings)))

\* doScanBoxes(src, dst, mode, boxspecStrings) with the default compOpts: the
\* whole call, on a source that is seekable or not
doScanBoxes(data, seekable, m, strings) == ScanRun([src |-> data, srcSeekable |-> seekable, mode |-> m, boxspecs |-> ParseSelectors(strings), compOpts |-> CompressionOptsDefault], ScanStart)

\* doFilter and doExtractBox up to their call of doScanBoxes; the mode says
\* which of the two it is.  doExtractBox returns 2 for an empty selector
\* list, and len(None) raises TypeError; brotli is taken to be installed
CommandEnter(m, strings, s) ==
  IF m # MODE_EXTRACT_FIRST THEN [s EXCEPT !.pc = "iter"]
  ELSE IF strings = None THEN [s EXCEPT !.pc = "failed", !.exc = "TypeError"]
  ELSE IF Len(Val(strings)) = 0 THEN [s EXCEPT !.pc = "exit", !.code = Some(2)]
  ELSE [s EXCEPT !.pc = "iter"]

\* doFilter and doExtractBox after doScanBoxes: code is the value the
\* command returns; an exception of the scan passes through both
CommandLeave(m, s) ==
  IF s.pc = "raised" THEN [s EXCEPT !.pc = "failed"]
  ELSE IF m # MODE_EXTRACT_FIRST THEN [s EXCEPT !.pc = "exit", !.code = s.result]
  ELSE IF Val(s.result) = DECOMP_TOO_BIG THEN [s EXCEPT !.pc = "exit", !.code = Some(2)]
  ELSE IF Val(s.result) # 0 THEN [s EXCEPT !.pc = "exit", !.code = Some(2)]
  ELSE [s EXCEPT !.pc = "exit", !.code = Some(0)]

\* ------------------------------------------------------------------------
\* Inputs: box streams, damaged box streams and raw codestreams
\* ------------------------------------------------------------------------

\* b'AAAA', b'Exif'
AAAA == <<65, 65, 65, 65>>

Exif == <<69, 120, 105, 102>>

\* the payloads of the boxes of an input; a brob box holds its inner type
\* and then one of these
Payloads == {[k \in 1..n |-> 97] : n \in 0..MaxPayload}

\* the boxes an input is made of: a type, a payload, the header form
Shapes == [boxtype : {AAAA}, payload : Payloads, ext : BOOLEAN] \cup {[boxtype |-> Exif, payload |-> <<>>, ext |-> FALSE]} \cup [boxtype : {brob}, payload : {Exif \o p : p \in Payloads}, ext : BOOLEAN]

\* the bytes of a box; implicit writes the size field 0 ("to end of file")
EncodeBox(b, implicit) ==
  LET total == (IF b.ext THEN 16 ELSE 8) + Len(b.payload)
      size == IF implicit THEN 0 ELSE total
  IN IF b.ext THEN <<0, 0, 0, 1>> \o b.boxtype \o <<0, 0, 0, 0, 0, 0, 0, size>> \o b.payload
     ELSE <<0, 0, 0, size>> \o b.boxtype \o b.payload

\* the bytes of a stream of boxes; only the last box may be implicit
RECURSIVE EncodeStream(_, _)
EncodeStream(bs, implicitLast) ==
  IF Len(bs) = 0 THEN <<>>
  ELSE IF Len(bs) = 1 THEN EncodeBox(bs[1], implicitLast)
  ELSE EncodeBox(bs[1], FALSE) \o EncodeStream(Tail(bs), implicitLast)

BoxLists == UNION {[1..n -> Shapes] : n \in 0..MaxBoxes}

GoodInputs == {EncodeStream(bs, imp) : bs \in BoxLists, imp \in BOOLEAN}

\* a stream cut short by k bytes
CutInputs == {SubSeq(b, 1, Len(b) - k) : b \in {g \in GoodInputs : Len(g) > MaxCut}, k \in 1..MaxCut}

\* a stream whose last box has a type byte that is not printable (a tab), or
\* a size field one less than its header length
BadLast(bs, imp, how) ==
  LET n == Len(bs)
      pre == EncodeStream(SubSeq(bs, 1, n - 1), FALSE)
      last == EncodeBox(bs[n], imp)
      hlen == IF bs[n].ext THEN 16 ELSE 8
  IN IF how = "type" THEN pre \o [last EXCEPT ![8] = 9]
     ELSE pre \o [last EXCEPT ![IF bs[n].ext THEN 16 ELSE 4] = hlen - 1]

BadInputs == {BadLast(bs, FALSE, how) : bs \in BoxLists \ {<<>>}, how \in {"type", "size"}}

\* raw codestreams of 2 to 10 bytes: b'\xff\n' and then bytes that are no 4CC
RawInputs == {RawMagic \o SubSeq(<<0, 17, 0, 0, 0, 0, 0, 0>>, 1, k) : k \in 0..8}

\* two files of four boxes, the second with an implicit-size last box
FourBoxes == <<[boxtype |-> AAAA, payload |-> <<>>, ext |-> FALSE], [boxtype |-> Exif, payload |-> <<97>>, ext |-> FALSE], [boxtype |-> brob, payload |-> Exif \o <<97>>, ext |-> TRUE], [boxtype |-> AAAA, payload |-> <<97>>, ext |-> FALSE]>>

FourBoxInputs == {EncodeStream(FourBoxes, imp) : imp \in BOOLEAN}

Inputs == GoodInputs \cup CutInputs \cup BadInputs \cup RawInputs \cup FourBoxInputs

\* ------------------------------------------------------------------------
\* Selectors
\* ------------------------------------------------------------------------

\* 'i=0'
sel_i0 == <<105, 61, 48>>

\* 'i=1..'
sel_i1up == <<105, 61, 49, 46, 46>>

\* 'i=..0'
sel_iupto0 == <<105, 61, 46, 46, 48>>

\* 'i=1..2'
sel_i1to2 == <<105, 61, 49, 46, 46, 50>>

\* 'i=3'
sel_i3 == <<105, 61, 51>>

\* 'type=Exif'
sel_type_Exif == <<116, 121, 112, 101, 61, 69, 120, 105, 102>>

\* 'TYPE=Exif'
sel_TYPE_Exif == <<84, 89, 80, 69, 61, 69, 120, 105, 102>>

\* 'TYPE=brob'
sel_TYPE_brob == <<84, 89, 80, 69, 61, 98, 114, 111, 98>>

\* 'type=brob'
sel_type_brob == <<116, 121, 112, 101, 61, 98, 114, 111, 98>>

\* 'itype=EXIF'
sel_itype_EXIF == <<105, 116, 121, 112, 101, 61, 69, 88, 73, 70>>

\* 'type~=?x*'
sel_typeglob == <<116, 121, 112, 101, 126, 61, 63, 120, 42>>

\* the selector lists (boxspecStrings) of a scan; None is the null list
SelectorLists == {None, Some(<<>>), Some(<<sel_i0>>), Some(<<sel_i1up>>), Some(<<sel_iupto0>>), Some(<<sel_i1to2>>), Some(<<sel_i0, sel_i3>>), Some(<<sel_type_Exif>>), Some(<<sel_TYPE_Exif>>), Some(<<sel_TYPE_brob>>), Some(<<sel_type_brob>>), Some(<<sel_itype_EXIF>>), Some(<<sel_typeglob>>), Some(<<sel_i0, sel_type_Exif>>)}

Modes == {MODE_KEEP, MODE_DROP, MODE_EXTRACT_FIRST, MODE_COUNT, MODE_HAS}

\* ------------------------------------------------------------------------
\* The state of one call of doScanBoxes
\* ------------------------------------------------------------------------

VARIABLES src, srcSeekable, mode, boxspecStrings, boxspecs, compOpts, scan

vars == <<src, srcSeekable, mode, boxspecStrings, boxspecs, compOpts, scan>>

\* the arguments of scanBoxes
Args == [src |-> src, srcSeekable |-> srcSeekable, mode |-> mode, boxspecs |-> boxspecs, compOpts |-> compOpts]

Init ==
  /\ src \in Inputs
  /\ srcSeekable \in BOOLEAN
  /\ mode \in Modes
  /\ boxspecStrings \in SelectorLists
  /\ boxspecs = ParseSelectors(boxspecStrings)
  /\ compOpts = CompressionOptsDefault
  /\ scan = ScanStart

\* reader.nextBox() returns a box: the loop body runs on it
IterNext ==
  /\ scan.pc = "iter"
  /\ scan' = IterNextStep(Args, scan)
  /\ scan'.pc = "peek"
  /\ UNCHANGED <<src, srcSeekable, mode, boxspecStrings, boxspecs, compOpts>>

\* reader.nextBox() returns None: the loop ends and scanBoxes returns
IterEnd ==
  /\ scan.pc = "iter"
  /\ scan' = IterNextStep(Args, scan)
  /\ scan'.pc = "returned"
  /\ scan'.result \notin {Some(RAW_JXL), Some(FAILED_PARSE)}
  /\ UNCHANGED <<src, srcSeekable, mode, boxspecStrings, boxspecs, compOpts>>

\* reader.nextBox() raises
IterFail ==
  /\ scan.pc = "iter"
  /\ scan' = IterNextStep(Args, scan)
  /\ scan'.pc = "raised" \/ scan'.result \in {Some(RAW_JXL), Some(FAILED_PARSE)}
  /\ UNCHANGED <<src, srcSeekable, mode, boxspecStrings, boxspecs, compOpts>>

\* the head of the loop body: inner type, peeked bytes, matches
Peek ==
  /\ scan.pc = "peek"
  /\ scan' = PeekStep(Args, scan)
  /\ scan'.pc = "body"
  /\ UNCHANGED <<src, srcSeekable, mode, boxspecStrings, boxspecs, compOpts>>

\* the peek at the inner type of a brob box fails
PeekFail ==
  /\ scan.pc = "peek"
  /\ scan' = PeekStep(Args, scan)
  /\ scan'.pc # "body"
  /\ UNCHANGED <<src, srcSeekable, mode, boxspecStrings, boxspecs, compOpts>>

\* MODE_EXTRACT_FIRST: the first matching box is extracted
ExtractFirst ==
  /\ scan.pc = "body"
  /\ ScanBranch(Args, scan) = "extract"
  /\ scan' = ScanExtract(Args, scan)
  /\ UNCHANGED <<src, srcSeekable, mode, boxspecStrings, boxspecs, compOpts>>

\* MODE_KEEP / MODE_DROP: the box is copied to the sink
CopyBox ==
  /\ scan.pc = "body"
  /\ ScanBranch(Args, scan) = "copy"
  /\ scan' = ScanCopy(Args, scan)
  /\ UNCHANGED <<src, srcSeekable, mode, boxspecStrings, boxspecs, compOpts>>

\* MODE_COUNT / MODE_HAS: the box is counted
CountBox ==
  /\ scan.pc = "body"
  /\ ScanBranch(Args, scan) = "count"
  /\ scan' = ScanCount(Args, scan)
  /\ UNCHANGED <<src, srcSeekable, mode, boxspecStrings, boxspecs, compOpts>>

\* the box takes no branch: it is skipped by the next nextBox()
SkipBox ==
  /\ scan.pc = "body"
  /\ ScanBranch(Args, scan) = "skip"
  /\ scan' = ScanSeen(scan)
  /\ UNCHANGED <<src, srcSeekable, mode, boxspecStrings, boxspecs, compOpts>>

Next == IterNext \/ IterEnd \/ IterFail \/ Peek \/ PeekFail \/ ExtractFirst \/ CopyBox \/ CountBox \/ SkipBox

Spec == Init /\ [][Next]_vars

\* doFilter(src, dst, keep=False, [selector]) with one type selector, on
\* well-formed inputs and raw codestreams
TypeSelectorLists == {Some(<<sel_type_Exif>>), Some(<<sel_TYPE_Exif>>), Some(<<sel_TYPE_brob>>), Some(<<sel_type_brob>>), Some(<<sel_itype_EXIF>>)}

InitTypes ==
  /\ src \in GoodInputs \cup RawInputs
  /\ srcSeekable \in BOOLEAN
  /\ mode = MODE_DROP
  /\ boxspecStrings \in TypeSelectorLists
  /\ boxspecs = ParseSelectors(boxspecStrings)
  /\ compOpts = CompressionOptsDefault
  /\ scan = ScanStart

NextTypes == IterNext \/ IterEnd \/ IterFail \/ Peek \/ PeekFail \/ CopyBox \/ SkipBox

SpecTypes == InitTypes /\ [][NextTypes]_vars

\* ------------------------------------------------------------------------
\* doScanBoxes with compression options: boxes are compressed into brob
\* boxes or brob boxes decompressed, into a sink that is seekable or not
\* ------------------------------------------------------------------------

\* the plain texts: b'', b'a', b'ab', ...
Plains == {[k \in 1..n |-> 96 + k] : n \in 0..MaxPlain}

\* the whole Brotli stream of a plain text
BrotliStream(p) == BrotliCompress(p) \o BrotliFinish

\* plain boxes, brob boxes holding the stream of a plain text, a brob box
\* whose stream lacks its end, and one whose stream is no Brotli stream
CompShapes == [boxtype : {AAAA}, payload : Plains, ext : {FALSE}] \cup [boxtype : {brob}, payload : {Exif \o BrotliStream(p) : p \in Plains}, ext : {FALSE}] \cup [boxtype : {brob}, payload : {Exif \o BrotliCompress(<<97>>), Exif \o <<7>>}, ext : {FALSE}]

CompInputs == {EncodeStream(bs, imp) : bs \in UNION {[1..n -> CompShapes] : n \in 1..MaxBoxes}, imp \in BOOLEAN}

\* CompressionOpts(compressWhen=..., decompressWhen=..., decompressMax=...)
CompOptions == {[CompressionOptsDefault EXCEPT !.compressWhen = COMPRESS_ALWAYS], [CompressionOptsDefault EXCEPT !.compressWhen = COMPRESS_AUTO]} \cup {[CompressionOptsDefault EXCEPT !.decompressWhen = DECOMPRESS_ALWAYS, !.decompressMax = m] : m \in -1..MaxDecompMax}

CompSelectorLists == {None, Some(<<sel_i0>>), Some(<<sel_i1up>>)}

\* a plain text whose Brotli stream is read in two blocks of IO_BLOCK_SIZE,
\* the second holding its last byte; one brob box holding that stream
BigPlain == [k \in 1..(IO_BLOCK_SIZE \div 2 + 1) |-> 97]

BigInputs == {writeBoxHeader(brob, Wide(4 + Len(BrotliStream(BigPlain)))).out \o Exif \o BrotliStream(BigPlain)}

\* decompressMax one byte short of the plain text, and equal to its length
BigOptions == {[CompressionOptsDefault EXCEPT !.decompressWhen = DECOMPRESS_ALWAYS, !.decompressMax = m] : m \in {Len(BigPlain) - 1, Len(BigPlain)}}

InitComp ==
  /\ \/ src \in CompInputs /\ compOpts \in CompOptions
     \/ src \in BigInputs /\ compOpts \in BigOptions
  /\ srcSeekable \in BOOLEAN
  /\ mode \in {MODE_KEEP, MODE_DROP, MODE_EXTRACT_FIRST}
  /\ boxspecStrings \in CompSelectorLists
  /\ boxspecs = ParseSelectors(boxspecStrings)
  /\ \E seekable \in BOOLEAN : scan = [ScanStart EXCEPT !.dst.seekable = seekable]

NextComp == IterNext \/ IterEnd \/ Peek \/ PeekFail \/ ExtractFirst \/ CopyBox \/ SkipBox

SpecComp == InitComp /\ [][NextComp]_vars

\* ------------------------------------------------------------------------
\* CompressionOpts.getAction asked about one box: every setting of
\* compressWhen, protectJxl, recompress, decompressWhen and of the two
\* selector lists, for plain, protected and brob boxes
\* ------------------------------------------------------------------------

\* b'JXL ', b'jxl '
JXL_upper == <<74, 88, 76, 32>>

jxl_space == <<106, 120, 108, 32>>

ActionSelectorLists == {ParseSelectors(l) : l \in {None, Some(<<>>), Some(<<sel_i0>>), Some(<<sel_type_Exif>>)}}

ActionOptions == {[CompressionOptsDefault EXCEPT !.compressWhen = cw, !.compressBoxes = cb, !.recompress = rc, !.decompressWhen = dw, !.decompressBoxes = db, !.protectJxl = pj] : cw \in {COMPRESS_NEVER, COMPRESS_AUTO, COMPRESS_ALWAYS}, cb \in ActionSelectorLists, rc \in BOOLEAN, dw \in {DECOMPRESS_NEVER, DECOMPRESS_ALWAYS}, db \in ActionSelectorLists, pj \in BOOLEAN}

\* the boxes asked about, with their inner type: that of the box itself
\* unless it is a brob box
ActionBoxes == {<<t, t>> : t \in {AAAA, Exif, ftyp, jbrd, jxlc, JXL_upper, jxl_space}} \cup {<<brob, t>> : t \in {Exif, jxlc}}

InitAction ==
  /\ src = <<>>
  /\ srcSeekable = FALSE
  /\ mode = MODE_KEEP
  /\ boxspecStrings = None
  /\ boxspecs = None
  /\ compOpts \in ActionOptions
  /\ scan = [pc |-> "idle", i |-> 0, box |-> None, innerType |-> None, instance |-> 0, compAction |-> None]

\* compOpts.getAction(i, box, innerType, instance)
CallGetAction ==
  /\ \E i \in 0..1, b \in ActionBoxes, ext \in BOOLEAN :
       \E box \in {BoxDetails(IF i = 0 THEN 0 ELSE 8, IF ext THEN 16 ELSE 8, b[1], ext)} :
         scan' = [pc |-> "asked", i |-> i, box |-> Some(box), innerType |-> Some(b[2]), instance |-> 0, compAction |-> Some(getAction(compOpts, i, box, Some(b[2]), 0))]
  /\ UNCHANGED <<src, srcSeekable, mode, boxspecStrings, boxspecs, compOpts>>

NextAction == CallGetAction

SpecAction == InitAction /\ [][NextAction]_vars

\* ------------------------------------------------------------------------
\* The commands doFilter (MODE_KEEP, MODE_DROP) and doExtractBox
\* (MODE_EXTRACT_FIRST), from the call to the value returned
\* ------------------------------------------------------------------------

\* 'i=9', an index no input has
sel_i9 == <<105, 61, 57>>

CommandSelectorLists == {None, Some(<<>>), Some(<<sel_i0>>), Some(<<sel_i1up>>), Some(<<sel_i9>>)}

CommandOptions == {CompressionOptsDefault} \cup {[CompressionOptsDefault EXCEPT !.decompressWhen = DECOMPRESS_ALWAYS, !.decompressMax = m] : m \in -1..MaxDecompMax}

InitCommand ==
  /\ src \in CompInputs \cup RawInputs
  /\ srcSeekable = TRUE
  /\ mode \in {MODE_KEEP, MODE_DROP, MODE_EXTRACT_FIRST}
  /\ boxspecStrings \in CommandSelectorLists
  /\ boxspecs = ParseSelectors(boxspecStrings)
  /\ compOpts \in CommandOptions
  /\ scan = [ScanStart EXCEPT !.pc = "command"]

\* the command calls doScanBoxes
CommandScan ==
  /\ scan.pc = "command"
  /\ scan' = CommandEnter(mode, boxspecStrings, scan)
  /\ scan'.pc = "iter"
  /\ UNCHANGED <<src, srcSeekable, mode, boxspecStrings, boxspecs, compOpts>>

\* doExtractBox is left before it calls doScanBoxes
CommandUsage ==
  /\ scan.pc = "command"
  /\ scan' = CommandEnter(mode, boxspecStrings, scan)
  /\ scan'.pc # "iter"
  /\ UNCHANGED <<src, srcSeekable, mode, boxspecStrings, boxspecs, compOpts>>

\* doScanBoxes has returned: the command returns its code
CommandReturn ==
  /\ scan.pc = "returned"
  /\ scan' = CommandLeave(mode, scan)
  /\ UNCHANGED <<src, srcSeekable, mode, boxspecStrings, boxspecs, compOpts>>

\* doScanBoxes has raised: the exception leaves the command
CommandRaise ==
  /\ scan.pc = "raised"
  /\ scan' = CommandLeave(mode, scan)
  /\ UNCHANGED <<src, srcSeekable, mode, boxspecStrings, boxspecs, compOpts>>

NextCommand == CommandScan \/ CommandUsage \/ IterNext \/ IterEnd \/ IterFail \/ Peek \/ PeekFail \/ ExtractFirst \/ CopyBox \/ SkipBox \/ CommandReturn \/ CommandRaise

SpecCommand == InitCommand /\ [][NextCommand]_vars

\* ------------------------------------------------------------------------
\* writeBoxHeader into an empty file, then BoxReader.nextBox on that file
\* ------------------------------------------------------------------------

\* box types: letters, spaces, the first and the last printable character
HeaderTypes == {AAAA, Exif, brob, jxl \o <<32>>, <<32, 32, 32, 32>>, <<126, 126, 126, 126>>}

\* payload sizes of 2^32 - 10 to 2^32 - 7 (the box size passes 0xFFFFFFFF
\* between the second and the third), one that gives a size field starting
\* FF 0A, 2^32, 2^40 + 5 and 2^64 - 17 (the box size is 2^64 - 1)
BigPayloadSizes == {[neg |-> FALSE, mag |-> m] : m \in {<<0, 0, 0, 0, 0, 255, 255, 255, 246>>, <<0, 0, 0, 0, 0, 255, 255, 255, 247>>, <<0, 0, 0, 0, 0, 255, 255, 255, 248>>, <<0, 0, 0, 0, 0, 255, 255, 255, 249>>, <<0, 0, 0, 0, 0, 255, 10, 0, 0>>, <<0, 0, 0, 0, 1, 0, 0, 0, 0>>, <<0, 0, 0, 1, 0, 0, 0, 0, 5>>, <<0, 255, 255, 255, 255, 255, 255, 255, 239>>}}

PayloadSizes == {Wide(n) : n \in -2..MaxHeaderPayload} \cup BigPayloadSizes

\* a payload of at most MaxHeaderPayload bytes is written after the header
IsSmall(payloadSize) == ~payloadSize.neg /\ WideLE(payloadSize, Wide(MaxHeaderPayload))

InitHeader ==
  /\ src = <<>>
  /\ srcSeekable = TRUE
  /\ mode = MODE_KEEP
  /\ boxspecStrings = None
  /\ boxspecs = None
  /\ compOpts = CompressionOptsDefault
  /\ \E t \in HeaderTypes, p \in PayloadSizes : scan = [pc |-> "start", boxtype |-> t, payloadSize |-> p, ret |-> 0, exc |-> "", read |-> nextBoxWide(<<>>)]

\* writeBoxHeader(to, boxtype, payloadSize)
WriteHeader ==
  /\ scan.pc = "start"
  /\ src' = writeBoxHeader(scan.boxtype, scan.payloadSize).out
  /\ scan' = [scan EXCEPT !.pc = "header", !.ret = writeBoxHeader(scan.boxtype, scan.payloadSize).ret, !.exc = writeBoxHeader(scan.boxtype, scan.payloadSize).exc]
  /\ UNCHANGED <<srcSeekable, mode, boxspecStrings, boxspecs, compOpts>>

\* payloadSize bytes are written after the header
WritePayload ==
  /\ scan.pc = "header" /\ IsSmall(scan.payloadSize)
  /\ src' = src \o [k \in 1..UnpackI(scan.payloadSize.mag) |-> 97]
  /\ scan' = [scan EXCEPT !.pc = "file"]
  /\ UNCHANGED <<srcSeekable, mode, boxspecStrings, boxspecs, compOpts>>

\* the payload is too large to be written out, or of no declared size: the
\* file is read back as it is
LeavePayload ==
  /\ scan.pc = "header" /\ ~IsSmall(scan.payloadSize)
  /\ scan' = [scan EXCEPT !.pc = "file"]
  /\ UNCHANGED <<src, srcSeekable, mode, boxspecStrings, boxspecs, compOpts>>

\* BoxReader(file).nextBox()
ReadHeader ==
  /\ scan.pc = "file"
  /\ scan' = [scan EXCEPT !.pc = "read", !.read = nextBoxWide(src)]
  /\ UNCHANGED <<src, srcSeekable, mode, boxspecStrings, boxspecs, compOpts>>

NextHeader == WriteHeader \/ WritePayload \/ LeavePayload \/ ReadHeader

SpecHeader == InitHeader /\ [][NextHeader]_vars

\* ------------------------------------------------------------------------
\* A client of BoxReader: any sequence of nextBox, read, copy and seek calls
\* on a well-formed file.  For each call the state keeps its name (op), its
\* byte count (n) and the exception it raised (exc), and what the client
\* knows of the box at hand: box is "none" before the first nextBox, "open"
\* when the last nextBox returned a box, "closed" when it returned None;
\* used is the kind of the first call that read from the box ("" when
\* there was none); failed tells that a call has raised an exception other
\* than UsageError
\* ------------------------------------------------------------------------

\* boxes of type AAAA with 8- and 16-byte headers
ReaderInputs == {EncodeStream(bs, imp) : bs \in UNION {[1..n -> [boxtype : {AAAA}, payload : Payloads, ext : BOOLEAN]] : n \in 1..MaxBoxes}, imp \in BOOLEAN}

\* the byte counts of the calls; -1 reads all there is
ReadSizes == -1..MaxRead

FullOps == {"readCurrentBox", "seekCurrentBox"}

PayloadOps == {"readCurrentBoxPayload", "seekCurrentBoxPayload"}

SeekOps == {"seekCurrentBox", "seekCurrentBoxPayload"}

\* the call reads from the box: every read and copy, a seek if n > 0
Reads(op, n) == op \in (FullOps \cup PayloadOps) /\ (op \in SeekOps => n > 0)

\* the client's state after nextBox() with outcome r
AfterNextBox(s, r) == [s EXCEPT !.rd = r.rd, !.op = "nextBox", !.n = 0, !.exc = r.exc, !.box = IF r.exc # "" THEN @ ELSE IF r.box # None THEN "open" ELSE "closed", !.used = IF r.exc = "" /\ r.box # None THEN "" ELSE @, !.failed = @ \/ r.exc \notin {"", "UsageError"}]

\* the client's state after the read, copy or seek call op(n) with outcome r
AfterRead(s, op, n, r) == [s EXCEPT !.rd = r.rd, !.op = op, !.n = n, !.exc = r.exc, !.used = IF @ = "" /\ Reads(op, n) /\ r.exc # "UsageError" THEN (IF op \in FullOps THEN "full" ELSE "payload") ELSE @, !.failed = @ \/ r.exc \notin {"", "UsageError"}]

InitReader ==
  /\ src \in ReaderInputs
  /\ srcSeekable \in BOOLEAN
  /\ mode = MODE_KEEP
  /\ boxspecStrings = None
  /\ boxspecs = None
  /\ compOpts = CompressionOptsDefault
  /\ scan = [pc |-> "client", rd |-> BoxReaderOpen, op |-> "", n |-> 0, exc |-> "", box |-> "none", used |-> "", failed |-> FALSE]

\* reader.nextBox(); a nextBox that raised may be called again and counts
\* _index up each time, which is followed up to MaxBoxes + 1
CallNextBox ==
  /\ scan.pc = "client"
  /\ scan.rd._index <= MaxBoxes
  /\ scan' = AfterNextBox(scan, nextBox(scan.rd, src, srcSeekable))
  /\ UNCHANGED <<src, srcSeekable, mode, boxspecStrings, boxspecs, compOpts>>

\* reader.readCurrentBox(n), reader.copyCurrentBox(to, n)
CallReadCurrentBox ==
  /\ scan.pc = "client"
  /\ \E n \in ReadSizes : scan' = AfterRead(scan, "readCurrentBox", n, readCurrentBox(scan.rd, src, n))
  /\ UNCHANGED <<src, srcSeekable, mode, boxspecStrings, boxspecs, compOpts>>

\* reader.readCurrentBoxPayload(n), reader.copyCurrentBoxPayload(to, n)
CallReadCurrentBoxPayload ==
  /\ scan.pc = "client"
  /\ \E n \in ReadSizes : scan' = AfterRead(scan, "readCurrentBoxPayload", n, readCurrentBoxPayload(scan.rd, src, n))
  /\ UNCHANGED <<src, srcSeekable, mode, boxspecStrings, boxspecs, compOpts>>

\* reader.seekCurrentBox(n)
CallSeekCurrentBox ==
  /\ scan.pc = "client"
  /\ \E n \in ReadSizes : scan' = AfterRead(scan, "seekCurrentBox", n, seekCurrentBox(scan.rd, src, n))
  /\ UNCHANGED <<src, srcSeekable, mode, boxspecStrings, boxspecs, compOpts>>

\* reader.seekCurrentBoxPayload(n)
CallSeekCurrentBoxPayload ==
  /\ scan.pc = "client"
  /\ \E n \in ReadSizes : scan' = AfterRead(scan, "seekCurrentBoxPayload", n, seekCurrentBoxPayload(scan.rd, src, n))
  /\ UNCHANGED <<src, srcSeekable, mode, boxspecStrings, boxspecs, compOpts>>

NextReader == CallNextBox \/ CallReadCurrentBox \/ CallReadCurrentBoxPayload \/ CallSeekCurrentBox \/ CallSeekCurrentBoxPayload

SpecReader == InitReader /\ [][NextReader]_vars

\* ------------------------------------------------------------------------
\* The same client on any file: the well-formed files and damaged ones (cut
\* short, a box type that is no 4CC, a size below the header length, a raw
\* codestream).  The client goes on calling after an exception, as a caller
\* that catches it can.
\* ------------------------------------------------------------------------

ReaderBoxLists == UNION {[1..n -> [boxtype : {AAAA}, payload : Payloads, ext : BOOLEAN]] : n \in 1..MaxBoxes}

ReaderCutInputs == {SubSeq(b, 1, Len(b) - k) : b \in ReaderInputs, k \in 1..MaxCut}

ReaderBadInputs == {BadLast(bs, imp, how) : bs \in ReaderBoxLists, imp \in BOOLEAN, how \in {"type", "size"}}

ReaderAnyInputs == ReaderInputs \cup ReaderCutInputs \cup ReaderBadInputs \cup RawInputs

InitReaderAny ==
  /\ src \in ReaderAnyInputs
  /\ srcSeekable \in BOOLEAN
  /\ mode = MODE_KEEP
  /\ boxspecStrings = None
  /\ boxspecs = None
  /\ compOpts = CompressionOptsDefault
  /\ scan = [pc |-> "client", rd |-> BoxReaderOpen, op |-> "", n |-> 0, exc |-> "", box |-> "none", used |-> "", failed |-> FALSE]

SpecReaderAny == InitReaderAny /\ [][NextReader]_vars

\* ------------------------------------------------------------------------
\* extractJxlCodestream(src, dst).  The BoxReader reads from
\* CatReader(False, jxlBox, src) with read(n), n >= 0, only (CatReader is
\* not seekable, so nextBox skips by reading): cat is what those reads
\* deliver, the signature followed by the rest of src
\* ------------------------------------------------------------------------

\* the concatenation of the inputs of a CatReader
RECURSIVE CatData(_)
CatData(files) == IF Len(files) = 0 THEN <<>> ELSE Head(files).data \o CatData(Tail(files))

ExtractStart == [pc |-> "start", rd |-> BoxReaderOpen, cat |-> <<>>, dst |-> [data |-> <<>>, pos |-> 0, seekable |-> TRUE], seenJxlc |-> FALSE, seenJbrd |-> FALSE, nextJxlp |-> 0, box |-> None, result |-> None, exc |-> ""]

\* `return v`; both readers are closed
ExtractReturn(s, v) == [s EXCEPT !.pc = "returned", !.result = Some(v), !.rd._eof = TRUE]

\* an exception propagates out of extractJxlCodestream
ExtractRaise(s, e) == [s EXCEPT !.pc = "raised", !.exc = e, !.rd._eof = TRUE]

\* jxlBox = src.read(len(JXL_CONTAINER_SIG)) and the check of it
ExtractOpen(data, s) ==
  LET jxlBox == FileRead(data, 0, Len(JXL_CONTAINER_SIG))
  IN IF jxlBox # JXL_CONTAINER_SIG THEN [s EXCEPT !.pc = "returned", !.result = Some(1)]
     ELSE [s EXCEPT !.pc = "iter", !.cat = CatData(<<[data |-> jxlBox], [data |-> From(data, Len(JXL_CONTAINER_SIG))]>>)]

\* `for box in reader`, n being the outcome of reader.nextBox()
ExtractFetched(s, n) ==
  IF n.exc # "" THEN ExtractRaise([s EXCEPT !.rd = n.rd], n.exc)
  ELSE IF n.box = None THEN [s EXCEPT !.rd = n.rd, !.box = None, !.pc = "after"]
  ELSE [s EXCEPT !.rd = n.rd, !.box = n.box, !.pc = "body"]

ExtractIter(s) == Only({ExtractFetched(s, n) : n \in {nextBox([s.rd EXCEPT !._doneIter = TRUE], s.cat, FALSE)}})

\* reader.copyCurrentBoxPayload(dst) with outcome cp, and `continue`
ExtractCopied(s, cp) ==
  IF cp.exc # "" THEN ExtractRaise([s EXCEPT !.rd = cp.rd, !.dst = SinkWrite(@, cp.out)], cp.exc)
  ELSE [s EXCEPT !.rd = cp.rd, !.dst = SinkWrite(@, cp.out), !.pc = "iter"]

ExtractCopy(s) == Only({ExtractCopied(s, cp) : cp \in {copyCurrentBoxPayload(s.rd, s.cat, -1)}})

\* the loop body for a jxlc box
ExtractJxlcBox(s) ==
  IF s.seenJxlc \/ s.nextJxlp # 0 THEN ExtractRaise(s, "InvalidJxlContainerError")
  ELSE ExtractCopy([s EXCEPT !.seenJxlc = TRUE])

\* the loop body for a jxlp box, from the read of the sequence number on:
\* r is the outcome of reader.readCurrentBoxPayload(4).  seqNum & 0x7FFFFFFF
\* is the big-endian value of the four bytes with the top bit of the first
\* cleared
ExtractJxlpSeq(s, r) ==
  LET seqNumBytes == r.data
      isLastJxlp == seqNumBytes[1] >= 128
      seqNum == BigEndian(<<seqNumBytes[1] % 128>> \o Tail(seqNumBytes), 0)
  IN IF r.exc # "" THEN ExtractRaise([s EXCEPT !.rd = r.rd], r.exc)
     ELSE IF Len(seqNumBytes) # 4 THEN ExtractRaise([s EXCEPT !.rd = r.rd], "InvalidJxlContainerError")
     ELSE IF seqNum # s.nextJxlp THEN ExtractReturn([s EXCEPT !.rd = r.rd], 2)
     ELSE ExtractCopy([s EXCEPT !.rd = r.rd, !.nextJxlp = IF isLastJxlp THEN -1 ELSE @ + 1])

\* the loop body for a jxlp box
ExtractJxlpBox(s) ==
  IF s.seenJxlc \/ s.nextJxlp < 0 THEN ExtractRaise(s, "InvalidJxlContainerError")
  ELSE Only({ExtractJxlpSeq(s, r) : r \in {readCurrentBoxPayload(s.rd, s.cat, 4)}})

\* the loop body for a jxll box, r being the outcome of
\* reader.readCurrentBoxPayload(1)
ExtractLevel(s, r) ==
  IF r.exc # "" THEN ExtractRaise([s EXCEPT !.rd = r.rd], r.exc)
  ELSE IF Len(r.data) # 1 THEN ExtractReturn([s EXCEPT !.rd = r.rd], 2)
  ELSE [s EXCEPT !.rd = r.rd, !.pc = "iter"]

\* a loop body that copies the payload of a box of any other type as well
ExtractOtherBoxCopied(s) == ExtractCopy(s)

\* the loop body for a box of any other type
ExtractOtherBox(s) ==
  IF ~s.seenJbrd /\ Val(s.box).boxtype = jbrd THEN [s EXCEPT !.seenJbrd = TRUE, !.pc = "iter"]
  ELSE IF Val(s.box).boxtype = jxll THEN Only({ExtractLevel(s, r) : r \in {readCurrentBoxPayload(s.rd, s.cat, 1)}})
  ELSE [s EXCEPT !.pc = "iter"]

\* an end of the loop that returns 0 whatever was seen
ExtractEndZero(s) == ExtractReturn(s, 0)

\* after the loop: the warning and the return value
ExtractEnd(s) == ExtractReturn(s, IF s.seenJxlc \/ s.nextJxlp # 0 THEN 0 ELSE 1)

\* one step of extractJxlCodestream
ExtractStep(data, s) ==
  IF s.pc = "start" THEN ExtractOpen(data, s)
  ELSE IF s.pc = "iter" THEN ExtractIter(s)
  ELSE IF s.pc = "after" THEN ExtractEnd(s)
  ELSE IF Val(s.box).boxtype = jxlc THEN ExtractJxlcBox(s)
  ELSE IF Val(s.box).boxtype = jxlp THEN ExtractJxlpBox(s)
  ELSE ExtractOtherBox(s)

RECURSIVE ExtractRun(_, _)
ExtractRun(data, s) == IF s.pc \in {"returned", "raised"} THEN s ELSE ExtractRun(data, ExtractStep(data, s))

\* extractJxlCodestream(src, dst) on an empty dst
extractJxlCodestream(data) == ExtractRun(data, ExtractStart)

\* the boxes of the inputs: a jxlc box, jxlp boxes with the sequence
\* numbers 0..2, marked last or not, each with its own payload byte, a jxlp
\* box too short for a sequence number, jxll boxes with and without the
\* level byte, jbrd, ftyp
SeqNum(n, last) == <<IF last THEN 128 ELSE 0, 0, 0, n>>

JxlShapes == {[boxtype |-> jxlc, payload |-> <<255, 10>>, ext |-> FALSE], [boxtype |-> jxlp, payload |-> <<0, 0>>, ext |-> FALSE], [boxtype |-> jxll, payload |-> <<5>>, ext |-> FALSE], [boxtype |-> jxll, payload |-> <<>>, ext |-> FALSE], [boxtype |-> jbrd, payload |-> <<>>, ext |-> FALSE], [boxtype |-> ftyp, payload |-> <<>>, ext |-> FALSE]} \cup {[boxtype |-> jxlp, payload |-> SeqNum(n, last) \o <<IF last THEN 200 + n ELSE 100 + n>>, ext |-> FALSE] : n \in 0..2, last \in BOOLEAN}

JxlContainers == {JXL_CONTAINER_SIG \o EncodeStream(bs, imp) : bs \in UNION {[1..n -> JxlShapes] : n \in 0..MaxJxlBoxes}, imp \in BOOLEAN}

\* inputs that do not start with the signature: nothing, a raw codestream,
\* a cut or altered signature, a container without its signature box
NoContainers == {<<>>, RawMagic \o <<0, 17>>, SubSeq(JXL_CONTAINER_SIG, 1, 11), [JXL_CONTAINER_SIG EXCEPT ![12] = 11] \o EncodeBox([boxtype |-> jxlc, payload |-> <<255, 10>>, ext |-> FALSE], FALSE), EncodeBox([boxtype |-> jxlc, payload |-> <<255, 10>>, ext |-> FALSE], FALSE)}

InitExtract ==
  /\ src \in JxlContainers \cup NoContainers
  /\ srcSeekable \in BOOLEAN
  /\ mode = MODE_KEEP
  /\ boxspecStrings = None
  /\ boxspecs = None
  /\ compOpts = CompressionOptsDefault
  /\ scan = ExtractStart

\* the signature is read and checked
ExtractSignature ==
  /\ scan.pc = "start"
  /\ scan' = ExtractStep(src, scan)
  /\ UNCHANGED <<src, srcSeekable, mode, boxspecStrings, boxspecs, compOpts>>

\* the reader is asked for the next box
ExtractNextBox ==
  /\ scan.pc = "iter"
  /\ scan' = ExtractStep(src, scan)
  /\ UNCHANGED <<src, srcSeekable, mode, boxspecStrings, boxspecs, compOpts>>

ExtractJxlc ==
  /\ scan.pc = "body" /\ Val(scan.box).boxtype = jxlc
  /\ scan' = ExtractStep(src, scan)
  /\ UNCHANGED <<src, srcSeekable, mode, boxspecStrings, boxspecs, compOpts>>

ExtractJxlp ==
  /\ scan.pc = "body" /\ Val(scan.box).boxtype = jxlp
  /\ scan' = ExtractStep(src, scan)
  /\ UNCHANGED <<src, srcSeekable, mode, boxspecStrings, boxspecs, compOpts>>

ExtractOther ==
  /\ scan.pc = "body" /\ Val(scan.box).boxtype \notin {jxlc, jxlp}
  /\ scan' = ExtractStep(src, scan)
  /\ UNCHANGED <<src, srcSeekable, mode, boxspecStrings, boxspecs, compOpts>>

\* the loop has ended
ExtractFinish ==
  /\ scan.pc = "after"
  /\ scan' = ExtractStep(src, scan)
  /\ UNCHANGED <<src, srcSeekable, mode, boxspecStrings, boxspecs, compOpts>>

NextExtract == ExtractSignature \/ ExtractNextBox \/ ExtractJxlc \/ ExtractJxlp \/ ExtractOther \/ ExtractFinish

SpecExtract == InitExtract /\ [][NextExtract]_vars

\* ------------------------------------------------------------------------
\* addContainer
\* ------------------------------------------------------------------------

\* The codestream is the bytes of `src` followed by `fill` further bytes
\* (all zero), fill being a wide integer: the copy of those bytes is taken
\* in closed form, so that boxes longer than 0xFFFFFFFF bytes are within
\* reach.  A byte count is a pair [n, fill] standing for n + fill.

\* b'\0\0\0\x14ftypjxl \0\0\0\0jxl '
FtypBox == <<0, 0, 0, 20>> \o ftyp \o <<106, 120, 108, 32, 0, 0, 0, 0, 106, 120, 108, 32>>

\* b'\0\0\0\x09jxll' + bytes([jxll])
LevelBox(level) == <<0, 0, 0, 9>> \o jxll \o <<level>>

RECURSIVE SortedInsert(_, _)
SortedInsert(x, s) == IF Len(s) = 0 THEN <<x>> ELSE IF x <= Head(s) THEN <<x>> \o s ELSE <<Head(s)>> \o SortedInsert(x, Tail(s))

\* sorted(splits) without sorting
unsorted(s) == s

\* list(sorted(splits))
RECURSIVE sorted(_)
sorted(s) == IF Len(s) = 0 THEN <<>> ELSE SortedInsert(Head(s), sorted(Tail(s)))

\* the value of a byte count
CountWide(c) == IF c.n < 0 THEN Wide(c.n) ELSE WideAdd(c.fill, c.n)

\* the state of a call of addContainer(src, dst, jxll, splits): `known` says
\* that streamSize(src) is not -1, `at` is the read position in src
WrapStart(level, splits, known, fill, seekable) == [pc |-> "start", jxll |-> level, splits |-> splits, known |-> known, fill |-> fill, dst |-> [data |-> <<>>, pos |-> 0, seekable |-> seekable, fill |-> Wide(0)], at |-> 0, codestreamBytesRemain |-> 0, sortedSplits |-> <<>>, i |-> 0, lastOff |-> 0, seqNum |-> -1, lastBoxSize |-> [n |-> 0, fill |-> Wide(0)], result |-> None, exc |-> "", out |-> None]

WrapReturn(s, v) == [s EXCEPT !.pc = "returned", !.result = Some(v)]

WrapRaise(s, e) == [s EXCEPT !.pc = "raised", !.exc = e]

\* streamSize, the two bytes read and checked, and the leading boxes
WrapOpen(data, s) ==
  IF FileRead(data, 0, 2) # <<255, 10>>
  THEN WrapReturn([s EXCEPT !.codestreamBytesRemain = IF s.known THEN Len(data) ELSE -1], 1)
  ELSE [s EXCEPT !.pc = "boxes",
                 !.codestreamBytesRemain = IF s.known THEN Len(data) ELSE -1,
                 !.dst = SinkWrite(SinkWrite(SinkWrite(@, JXL_CONTAINER_SIG), FtypBox), IF s.jxll = None THEN <<>> ELSE LevelBox(Val(s.jxll))),
                 !.sortedSplits = IF s.splits = None THEN <<>> ELSE sorted(Val(s.splits))]

\* the header of a jxlp box that is not the last
WrapSplitHeader(size, seqNum) ==
  IF ~WideLE(Wide(size), BIG_SIZE)
  THEN <<0, 0, 0, 1>> \o jxlp \o PackQ(Wide(size + 8)) \o SeqNum(seqNum, FALSE)
  ELSE PackI(Wide(size)) \o jxlp \o SeqNum(seqNum, FALSE)

\* one round of `for i,off in enumerate(sortedSplits)`, c being the outcome
\* of copyData(src, dst, chunkSize)
WrapSplitCopied(s, off, c) ==
  IF c.exc # ""
  THEN WrapRaise([s EXCEPT !.seqNum = s.i, !.lastOff = off, !.at = c.pos, !.dst = SinkWrite(SinkWrite(@, WrapSplitHeader(12 + off - s.lastOff, s.i)), c.out)], c.exc)
  ELSE [s EXCEPT !.seqNum = s.i, !.lastOff = off, !.i = s.i + 1, !.at = c.pos,
                 !.dst = SinkWrite(SinkWrite(@, WrapSplitHeader(12 + off - s.lastOff, s.i)), c.out),
                 !.codestreamBytesRemain = @ - c.done]

WrapSplit(data, s) == Only({WrapSplitCopied(s, s.sortedSplits[s.i + 1], c) : c \in {copyData(data, s.at, s.sortedSplits[s.i + 1] - s.lastOff)}})

\* (seqNum + 2) | 0x80000000
WrapLastSeqSkipped(seqNum) == SeqNum(seqNum + 2, TRUE)

\* struct.pack('>I', (seqNum + 1) | 0x80000000)
WrapLastSeq(seqNum) == SeqNum(seqNum + 1, TRUE)

\* the last box written: h is the outcome of writeBoxHeader, seq the bytes
\* written between header and codestream, c the outcome of
\* copyData(src, dst, None) on the bytes of src; the fill follows them
WrapLastWritten(s, h, seq, c) ==
  IF h.exc # "" THEN WrapRaise([s EXCEPT !.dst = SinkWrite(@, h.out)], h.exc)
  ELSE [s EXCEPT !.pc = "patch", !.at = c.pos,
                 !.dst = [SinkWrite(SinkWrite(SinkWrite(@, h.out), seq), c.out) EXCEPT !.fill = s.fill],
                 !.lastBoxSize = [n |-> h.ret + Len(seq) + c.done, fill |-> s.fill]]

\* the final jxlp box
WrapLastJxlp(data, s) ==
  Only({WrapLastWritten([s EXCEPT !.seqNum = s.seqNum + 1], h, WrapLastSeq(s.seqNum), copyData(data, s.at, -1)) :
        h \in {writeBoxHeader(jxlp, IF s.codestreamBytesRemain >= 0 THEN CountWide([n |-> 4 + s.codestreamBytesRemain, fill |-> s.fill]) ELSE Wide(-1))}})

\* the jxlc box
WrapJxlc(data, s) ==
  Only({WrapLastWritten(s, h, <<>>, copyData(data, s.at, -1)) :
        h \in {writeBoxHeader(jxlc, CountWide([n |-> s.codestreamBytesRemain, fill |-> s.fill]))}})

\* addContainer without the seek back to the end of the output
WrapPatchNoSeek(s) ==
  IF s.codestreamBytesRemain < 0 /\ WideLE(CountWide(s.lastBoxSize), BIG_SIZE) /\ s.dst.seekable
  THEN WrapReturn([s EXCEPT !.dst = SinkWrite([@ EXCEPT !.pos = @ - s.lastBoxSize.n], PackI(CountWide(s.lastBoxSize)))], 0)
  ELSE WrapReturn(s, 0)

\* the size of the last box set afterwards, and `return 0`: dst.tell() is
\* the end of the output, the seek goes back by lastBoxSize
WrapPatch(s) ==
  IF s.codestreamBytesRemain < 0 /\ WideLE(CountWide(s.lastBoxSize), BIG_SIZE) /\ s.dst.seekable
  THEN WrapReturn([s EXCEPT !.dst = [SinkWrite([@ EXCEPT !.pos = @ - s.lastBoxSize.n], PackI(CountWide(s.lastBoxSize))) EXCEPT !.pos = s.dst.pos]], 0)
  ELSE WrapReturn(s, 0)

WrapStep(data, s) ==
  IF s.pc = "start" THEN WrapOpen(data, s)
  ELSE IF s.pc = "patch" THEN WrapPatch(s)
  ELSE IF s.splits = None THEN WrapJxlc(data, s)
  ELSE IF s.i < Len(s.sortedSplits) THEN WrapSplit(data, s)
  ELSE WrapLastJxlp(data, s)

\* extractJxlCodestream applied to the output of addContainer
WrapExtracted(s, e) == [s EXCEPT !.pc = "extracted", !.out = Some([result |-> e.result, exc |-> e.exc, data |-> e.dst.data])]

\* the codestreams: FF 0A and up to MaxCodestream further bytes; the fills:
\* none, or as many bytes as bring a jxlc box of a two-byte src to 0xFFFFFFFF
Codestreams == {<<255, 10>> \o t : t \in UNION {[1..k -> {1, 2}] : k \in 0..MaxCodestream}}

NoCodestreams == {<<>>, <<255>>, <<10, 255>>, <<255, 11, 1>>, JXL_CONTAINER_SIG}

Fills == {Wide(0), [neg |-> FALSE, mag |-> <<0, 0, 0, 0, 0, 255, 255, 255, 245>>]}

Levels == {None, Some(5), Some(10)}

\* splits: None, or a list of up to MaxSplits offsets within the bytes of src
SplitLists(data) == {None} \cup {Some(l) : l \in UNION {[1..k -> 0..Len(data)] : k \in 0..MaxSplits}}

InitWrap ==
  /\ src \in Codestreams \cup NoCodestreams
  /\ srcSeekable \in BOOLEAN
  /\ mode = MODE_KEEP
  /\ boxspecStrings = None
  /\ boxspecs = None
  /\ compOpts = CompressionOptsDefault
  /\ scan \in {WrapStart(level, splits, srcSeekable, fill, seekable) : level \in Levels, splits \in SplitLists(src), fill \in Fills, seekable \in BOOLEAN}

\* the input is sized, its first two bytes are read and checked
WrapSignature ==
  /\ scan.pc = "start"
  /\ scan' = WrapStep(src, scan)
  /\ UNCHANGED <<src, srcSeekable, mode, boxspecStrings, boxspecs, compOpts>>

\* a jxlp box that is not the last is written
WrapSplitBox ==
  /\ scan.pc = "boxes" /\ scan.splits # None /\ scan.i < Len(scan.sortedSplits)
  /\ scan' = WrapStep(src, scan)
  /\ UNCHANGED <<src, srcSeekable, mode, boxspecStrings, boxspecs, compOpts>>

\* the last jxlp box is written
WrapLastJxlpBox ==
  /\ scan.pc = "boxes" /\ scan.splits # None /\ scan.i = Len(scan.sortedSplits)
  /\ scan' = WrapStep(src, scan)
  /\ UNCHANGED <<src, srcSeekable, mode, boxspecStrings, boxspecs, compOpts>>

\* the jxlc box is written
WrapJxlcBox ==
  /\ scan.pc = "boxes" /\ scan.splits = None
  /\ scan' = WrapStep(src, scan)
  /\ UNCHANGED <<src, srcSeekable, mode, boxspecStrings, boxspecs, compOpts>>

\* the last box's size is set afterwards if need be; addContainer returns
WrapFinish ==
  /\ scan.pc = "patch"
  /\ scan' = WrapStep(src, scan)
  /\ UNCHANGED <<src, srcSeekable, mode, boxspecStrings, boxspecs, compOpts>>

\* the output, when all its bytes are in dst.data, is given to
\* extractJxlCodestream
WrapThenExtract ==
  /\ scan.pc = "returned" /\ scan.result = Some(0) /\ scan.dst.fill = Wide(0)
  /\ scan' = Only({WrapExtracted(scan, e) : e \in {extractJxlCodestream(scan.dst.data)}})
  /\ UNCHANGED <<src, srcSeekable, mode, boxspecStrings, boxspecs, compOpts>>

NextWrap == WrapSignature \/ WrapSplitBox \/ WrapLastJxlpBox \/ WrapJxlcBox \/ WrapFinish \/ WrapThenExtract

SpecWrap == InitWrap /\ [][NextWrap]_vars

\* ------------------------------------------------------------------------
\* _writeBoxes
\* ------------------------------------------------------------------------

\* A box descriptor is a Python string, here the sequence of its code
\* points.  The output file is [data, pos, seekable, tell, fill, fillAt]:
\* tell says whether outfile.tell() works (it does on every seekable file;
\* on a file that is not seekable it raises or not, as the file object
\* has it); fill bytes (zeros), if any, sit after the first fillAt bytes of
\* data, and pos counts the bytes of data before the position.

\* str.encode('utf-8'), for code points below 0x800
RECURSIVE Utf8(_)
Utf8(s) == IF Len(s) = 0 THEN <<>> ELSE (IF Head(s) < 128 THEN <<Head(s)>> ELSE <<192 + (Head(s) \div 64), 128 + (Head(s) % 64)>>) \o Utf8(Tail(s))

\* str.encode('ASCII', errors='ignore')
AsciiIgnore(s) == SelectSeq(s, LAMBDA c : c < 128)

\* the files that descriptors name: "a", a regular file, and "-", standard
\* input, taken to be a pipe
FileA == <<120, 121>>

StdinData == <<122>>

\* openFileOrStdin(name, 'rb') entered by `with`, and what streamSize will
\* say of the file; standard input is closed when a `with` block over it
\* has been left
openFileOrStdin(name, stdinClosed) ==
  IF name = <<45>> /\ stdinClosed THEN [data |-> <<>>, known |-> FALSE, exc |-> "ValueError"]
  ELSE IF name = <<45>> THEN [data |-> StdinData, known |-> FALSE, exc |-> ""]
  ELSE IF name = <<97>> THEN [data |-> FileA, known |-> TRUE, exc |-> ""]
  ELSE [data |-> <<>>, known |-> FALSE, exc |-> "FileNotFoundError"]

\* the locals of a call of _writeBoxes
WriteBoxesStart(outfile) == [dst |-> outfile, wrote |-> 0, boxi |-> 0, stdinClosed |-> FALSE, ret |-> None, exc |-> ""]

\* `continue`
WriteBoxesContinue(w, dst, n) == [w EXCEPT !.dst = dst, !.wrote = @ + n, !.boxi = @ + 1]

\* the compAction of a new box of type newTypeBytes
WriteBoxesAction(opts, newTypeBytes) ==
  IF opts.compressWhen # COMPRESS_NEVER
  THEN getAction(opts, -1, BoxDetails(-1, 0, newTypeBytes, FALSE), None, -1)
  ELSE COMPRESS_NEVER

\* a box whose content is given as text
WriteBoxesLiteral(w, opts, newTypeBytes, data, compData, compAction) ==
  IF compAction # COMPRESS_NEVER /\ (Len(compData) + 4 < Len(data) \/ compAction = COMPRESS_ALWAYS)
  THEN WriteBoxesContinue(w, SinkWrite(SinkWrite(SinkWrite(w.dst, writeBoxHeader(brob, Wide(Len(compData) + 4)).out), newTypeBytes), compData),
                          writeBoxHeader(brob, Wide(Len(compData) + 4)).ret + Len(newTypeBytes) + Len(compData))
  ELSE WriteBoxesContinue(w, SinkWrite(SinkWrite(w.dst, writeBoxHeader(newTypeBytes, Wide(Len(data))).out), data),
                          writeBoxHeader(newTypeBytes, Wide(Len(data))).ret + Len(data))

\* the size field at outBoxOffset set afterwards; the position is boxEnd
WriteBoxesPatch(w, dst, n, outBoxOffset, isLastBox) ==
  IF ~WideLE(Wide(dst.pos - outBoxOffset), BIG_SIZE) /\ ~isLastBox
  THEN [w EXCEPT !.dst = [dst EXCEPT !.pos = outBoxOffset], !.wrote = @ + n, !.ret = Some(1)]
  ELSE IF WideLE(Wide(dst.pos - outBoxOffset), BIG_SIZE)
  THEN WriteBoxesContinue(w, [SinkWrite([dst EXCEPT !.pos = outBoxOffset], PackI(Wide(dst.pos - outBoxOffset))) EXCEPT !.pos = dst.pos], n)
  ELSE WriteBoxesContinue(w, [dst EXCEPT !.pos = outBoxOffset], n)

\* a box whose content is compressed from a file: dst is the output after
\* the header, the type and the compressed data, n their length
WriteBoxesCompressed(w, dst, n, isLastBox) ==
  IF ~dst.tell THEN [w EXCEPT !.dst = dst, !.wrote = @ + n, !.exc = "IOError"]
  ELSE IF dst.seekable THEN WriteBoxesPatch(w, dst, n, w.dst.pos, isLastBox)
  ELSE WriteBoxesContinue(w, dst, n)

\* writeBoxHeader(outfile, b'brob', 0)
WriteBoxesBrobHeader == writeBoxHeader(brob, Wide(0))

\* a box whose content is copied from a file: c is the outcome of copyData
WriteBoxesCopied(w, h, c, dataSize, isLastBox) ==
  IF c.exc # "" THEN [w EXCEPT !.dst = SinkWrite(SinkWrite(w.dst, h.out), c.out), !.exc = c.exc]
  ELSE IF dataSize = -1 /\ w.dst.seekable THEN WriteBoxesPatch(w, SinkWrite(SinkWrite(w.dst, h.out), c.out), h.ret + c.done, w.dst.pos, isLastBox)
  ELSE WriteBoxesContinue(w, SinkWrite(SinkWrite(w.dst, h.out), c.out), h.ret + c.done)

\* a box whose content is a file, inbox
WriteBoxesFile(w, newTypeBytes, inbox, compAction, dataSize, isLastBox) ==
  IF inbox.exc # "" THEN [w EXCEPT !.exc = inbox.exc]
  ELSE IF dataSize = -1 /\ ~isLastBox /\ ~w.dst.seekable THEN [w EXCEPT !.exc = "UnseekableOutputError"]
  ELSE IF compAction # COMPRESS_NEVER
  THEN WriteBoxesCompressed(w, SinkWrite(SinkWrite(SinkWrite(w.dst, WriteBoxesBrobHeader.out), newTypeBytes), BrotliCompress(inbox.data) \o BrotliFinish),
                            WriteBoxesBrobHeader.ret + Len(newTypeBytes) + Len(BrotliCompress(inbox.data) \o BrotliFinish), isLastBox)
  ELSE WriteBoxesCopied(w, writeBoxHeader(newTypeBytes, Wide(dataSize)), copyData(inbox.data, 0, dataSize), dataSize, isLastBox)

\* one round of `for boxi,newBox in enumerate(boxes)`
WriteBoxesParsed(w, opts, atEnd, last, newTypeStr, newTypeBytes, newMethod, newDataSource, compAction) ==
  IF Len(newTypeStr) # 4 \/ ~isValid4cc(newTypeBytes) \/ newMethod \notin {<<61>>, <<64>>} THEN [w EXCEPT !.ret = Some(-1)]
  ELSE IF newMethod = <<61>> THEN WriteBoxesLiteral(w, opts, newTypeBytes, Utf8(newDataSource), BrotliCompress(Utf8(newDataSource)) \o BrotliFinish, compAction)
  ELSE [WriteBoxesFile(w, newTypeBytes, openFileOrStdin(newDataSource, w.stdinClosed), compAction,
                       IF compAction = COMPRESS_NEVER THEN (IF openFileOrStdin(newDataSource, w.stdinClosed).known THEN Len(openFileOrStdin(newDataSource, w.stdinClosed).data) ELSE -1) ELSE -1,
                       atEnd /\ last)
        EXCEPT !.stdinClosed = @ \/ newDataSource = <<45>>]

WriteBoxesStep(w, boxes, opts, atEnd) ==
  IF w.boxi >= Len(boxes) THEN [w EXCEPT !.ret = Some(w.wrote)]
  ELSE Only({WriteBoxesParsed(w, opts, atEnd, w.boxi = Len(boxes) - 1, Slice(newBox, 0, 4), newTypeBytes, Slice(newBox, 4, 5), From(newBox, 5), WriteBoxesAction(opts, newTypeBytes)) :
             newBox \in {boxes[w.boxi + 1]}, newTypeBytes \in {AsciiIgnore(Slice(boxes[w.boxi + 1], 0, 4))}})

RECURSIVE WriteBoxesRun(_, _, _, _)
WriteBoxesRun(w, boxes, opts, atEnd) == IF w.ret # None \/ w.exc # "" THEN w ELSE WriteBoxesRun(WriteBoxesStep(w, boxes, opts, atEnd), boxes, opts, atEnd)

\* _writeBoxes(outfile, boxes, encoding, compOpts, atEnd) with encoding
\* 'utf-8'
_writeBoxes(outfile, boxes, opts, atEnd) == WriteBoxesRun(WriteBoxesStart(outfile), boxes, opts, atEnd)

\* the descriptors: utf8=é, ABOX@a, SBOX@-, and ab= (not a descriptor)
Descriptors == {<<117, 116, 102, 56, 61, 233>>, <<65, 66, 79, 88, 64, 97>>, <<83, 66, 79, 88, 64, 45>>, <<97, 98, 61>>}

DescriptorLists == UNION {[1..n -> Descriptors] : n \in 0..MaxNewBoxes}

\* output files: seekable or not, and then with a tell() that works or not;
\* before is what was written already
Outfiles(before) == {[data |-> before, pos |-> Len(before), seekable |-> k[1], tell |-> k[2], fill |-> Wide(0), fillAt |-> 0] : k \in {<<TRUE, TRUE>>, <<FALSE, TRUE>>, <<FALSE, FALSE>>}}

WriteBoxesOptions == {[CompressionOptsDefault EXCEPT !.compressWhen = c] : c \in {COMPRESS_NEVER, COMPRESS_AUTO, COMPRESS_ALWAYS}}

InitWriteBoxes ==
  /\ src = <<>>
  /\ srcSeekable = FALSE
  /\ mode = MODE_KEEP
  /\ boxspecStrings = None
  /\ boxspecs = None
  /\ compOpts \in WriteBoxesOptions
  /\ scan \in {[pc |-> "boxes", boxes |-> boxes, atEnd |-> atEnd, w |-> WriteBoxesStart(outfile), prev |-> WriteBoxesStart(outfile)] :
               boxes \in DescriptorLists, atEnd \in BOOLEAN, outfile \in Outfiles(EncodeBox([boxtype |-> AAAA, payload |-> <<>>, ext |-> FALSE], FALSE))}

WriteBoxesAfter(w) == [scan EXCEPT !.w = w, !.prev = scan.w, !.pc = IF w.exc # "" THEN "raised" ELSE IF w.ret # None THEN "returned" ELSE "boxes"]

\* a box is written from text
WriteLiteralBox ==
  /\ scan.pc = "boxes" /\ scan.w.boxi < Len(scan.boxes) /\ Slice(scan.boxes[scan.w.boxi + 1], 4, 5) = <<61>>
  /\ scan' = WriteBoxesAfter(WriteBoxesStep(scan.w, scan.boxes, compOpts, scan.atEnd))
  /\ UNCHANGED <<src, srcSeekable, mode, boxspecStrings, boxspecs, compOpts>>

\* a box is written from a file
WriteFileBox ==
  /\ scan.pc = "boxes" /\ scan.w.boxi < Len(scan.boxes) /\ Slice(scan.boxes[scan.w.boxi + 1], 4, 5) = <<64>>
  /\ scan' = WriteBoxesAfter(WriteBoxesStep(scan.w, scan.boxes, compOpts, scan.atEnd))
  /\ UNCHANGED <<src, srcSeekable, mode, boxspecStrings, boxspecs, compOpts>>

\* a string that is no descriptor ends the call
WriteInvalidBox ==
  /\ scan.pc = "boxes" /\ scan.w.boxi < Len(scan.boxes) /\ Slice(scan.boxes[scan.w.boxi + 1], 4, 5) \notin {<<61>>, <<64>>}
  /\ scan' = WriteBoxesAfter(WriteBoxesStep(scan.w, scan.boxes, compOpts, scan.atEnd))
  /\ UNCHANGED <<src, srcSeekable, mode, boxspecStrings, boxspecs, compOpts>>

\* `return wrote`
WriteBoxesReturn ==
  /\ scan.pc = "boxes" /\ scan.w.boxi >= Len(scan.boxes)
  /\ scan' = WriteBoxesAfter(WriteBoxesStep(scan.w, scan.boxes, compOpts, scan.atEnd))
  /\ UNCHANGED <<src, srcSeekable, mode, boxspecStrings, boxspecs, compOpts>>

NextWriteBoxes == WriteLiteralBox \/ WriteFileBox \/ WriteInvalidBox \/ WriteBoxesReturn

SpecWriteBoxes == InitWriteBoxes /\ [][NextWriteBoxes]_vars

\* ------------------------------------------------------------------------
\* doAddBoxes
\* ------------------------------------------------------------------------

\* The input is the bytes of `src`; when its last box has implicit size,
\* `infill` further bytes (zeros) may follow them as the rest of that box's
\* payload.  infile is not sys.stdin.buffer.

\* the output after the fill bytes of the input's last box were copied
SinkFill(dst, fill) == IF fill = Wide(0) THEN dst ELSE [dst EXCEPT !.fill = fill, !.fillAt = Len(dst.data)]

\* the state of a call of doAddBoxes(infile, outfile, newboxes, 'utf-8',
\* compOpts, at); known says that streamSize(infile) is not -1
AddStart(newboxes, at, known, infill, outfile) == [pc |-> "start", rd |-> BoxReaderOpen, known |-> known, infill |-> infill, dst |-> outfile, newboxes |-> newboxes, at |-> at, appendingBoxes |-> FALSE, originalBytesCopied |-> 0, i |-> -1, box |-> None, result |-> None, exc |-> ""]

AddReturn(s, v) == [s EXCEPT !.pc = "returned", !.result = Some(v), !.rd._eof = TRUE]

AddRaise(s, e) == [s EXCEPT !.pc = "raised", !.exc = e, !.rd._eof = TRUE]

\* stdinCount and the locals set before the loop
AddOpen(s) ==
  IF Cardinality({k \in 1..Len(s.newboxes) : From(s.newboxes[k], 4) = <<64, 45>>}) > 1 THEN [s EXCEPT !.pc = "returned", !.result = Some(1)]
  ELSE [s EXCEPT !.pc = "iter", !.appendingBoxes = Len(s.newboxes) > 0]

\* `for i,box in enumerate(reader)`, n being the outcome of nextBox()
AddFetched(s, n) ==
  IF n.exc # "" THEN AddRaise([s EXCEPT !.rd = n.rd], n.exc)
  ELSE IF n.box = None THEN [s EXCEPT !.rd = n.rd, !.box = None, !.pc = "after"]
  ELSE [s EXCEPT !.rd = n.rd, !.box = n.box, !.i = @ + 1, !.pc = IF s.i + 1 = s.at THEN "insert" ELSE "copy"]

AddIter(data, s) == Only({AddFetched(s, n) : n \in {nextBox([s.rd EXCEPT !._doneIter = TRUE], data, s.known)}})

\* `if i == at`, w being the outcome of _writeBoxes(..., atEnd=False)
AddInserted(s, w) ==
  IF w.exc # "" THEN AddRaise([s EXCEPT !.dst = w.dst], w.exc)
  ELSE IF w.ret = Some(-1) THEN AddReturn([s EXCEPT !.dst = w.dst], 1)
  ELSE [s EXCEPT !.dst = w.dst, !.appendingBoxes = FALSE, !.pc = "copy"]

AddInsertHere(s, opts) == Only({AddInserted(s, w) : w \in {_writeBoxes(s.dst, s.newboxes, opts, FALSE)}})

\* the last box has size 0 and the input size is known: payloadSize is
\* n + infill, h the outcome of writeBoxHeader, cp of copyCurrentBoxPayload
AddKnownCopied(s, n, h, cp) ==
  IF h.exc # "" THEN AddRaise([s EXCEPT !.dst = SinkWrite(@, h.out)], h.exc)
  ELSE IF cp.exc # "" THEN AddRaise([s EXCEPT !.rd = cp.rd, !.dst = SinkWrite(SinkWrite(@, h.out), cp.out)], cp.exc)
  ELSE IF cp.ret # n THEN AddReturn([s EXCEPT !.rd = cp.rd, !.dst = SinkFill(SinkWrite(SinkWrite(@, h.out), cp.out), s.infill), !.originalBytesCopied = @ + h.ret + cp.ret], 1)
  ELSE [s EXCEPT !.rd = cp.rd, !.dst = SinkFill(SinkWrite(SinkWrite(@, h.out), cp.out), s.infill), !.originalBytesCopied = @ + h.ret + cp.ret, !.pc = "after"]

AddKnown(data, s) ==
  Only({AddKnownCopied(s, n, writeBoxHeader(Val(s.box).boxtype, CountWide([n |-> n, fill |-> s.infill])), copyCurrentBoxPayload(s.rd, data, -1)) :
        n \in {Len(data) - s.originalBytesCopied - (IF Val(s.box).hasExtendedSize THEN 16 ELSE 8)}})

\* struct.pack('>I', newBoxSize): nothing if struct.error is raised
AddPackSize(newBoxSize) == PackI(newBoxSize)

\* AddSeekablePatched without `if box.hasExtendedSize`: the size is written
\* over the first 4 bytes of the box whatever its header
AddSeekablePatchedShort(s, cp, dst, newBoxSize) ==
  IF cp.exc # "" THEN AddRaise([s EXCEPT !.rd = cp.rd, !.dst = dst], cp.exc)
  ELSE (IF AddPackSize(newBoxSize) = <<>> THEN AddRaise([s EXCEPT !.rd = cp.rd, !.dst = [dst EXCEPT !.pos = s.dst.pos]], "struct.error")
        ELSE [s EXCEPT !.rd = cp.rd, !.dst = [SinkWrite([dst EXCEPT !.pos = s.dst.pos], AddPackSize(newBoxSize)) EXCEPT !.pos = dst.pos], !.pc = "after"])

\* the last box has size 0, the input size is not known and the output is
\* seekable: dst is the output after reader.copyCurrentBox(outfile), the
\* box is newBoxSize long
AddSeekablePatched(s, cp, dst, newBoxSize) ==
  IF cp.exc # "" THEN AddRaise([s EXCEPT !.rd = cp.rd, !.dst = dst], cp.exc)
  ELSE IF Val(s.box).hasExtendedSize
  THEN (IF PackQ(newBoxSize) = <<>> THEN AddRaise([s EXCEPT !.rd = cp.rd, !.dst = [dst EXCEPT !.pos = s.dst.pos + 8]], "struct.error")
        ELSE [s EXCEPT !.rd = cp.rd, !.dst = [SinkWrite([dst EXCEPT !.pos = s.dst.pos + 8], PackQ(newBoxSize)) EXCEPT !.pos = dst.pos], !.pc = "after"])
  ELSE (IF AddPackSize(newBoxSize) = <<>> THEN AddRaise([s EXCEPT !.rd = cp.rd, !.dst = [dst EXCEPT !.pos = s.dst.pos]], "struct.error")
        ELSE [s EXCEPT !.rd = cp.rd, !.dst = [SinkWrite([dst EXCEPT !.pos = s.dst.pos], AddPackSize(newBoxSize)) EXCEPT !.pos = dst.pos], !.pc = "after"])

AddSeekable(data, s) ==
  Only({AddSeekablePatched(s, cp, SinkFill(SinkWrite(s.dst, cp.out), s.infill), CountWide([n |-> cp.ret, fill |-> s.infill])) :
        cp \in {copyCurrentBox(s.rd, data, -1)}})

\* `originalBytesCopied += reader.copyCurrentBox(outfile)`
AddCopied(s, cp) ==
  IF cp.exc # "" THEN AddRaise([s EXCEPT !.rd = cp.rd, !.dst = SinkWrite(@, cp.out)], cp.exc)
  ELSE [s EXCEPT !.rd = cp.rd, !.originalBytesCopied = @ + cp.ret, !.pc = "iter",
                 !.dst = IF Val(s.box).length = 0 THEN SinkFill(SinkWrite(@, cp.out), s.infill) ELSE SinkWrite(@, cp.out)]

\* the copy of the existing box
AddCopy(data, s) ==
  IF Val(s.box).length = 0 /\ s.known THEN AddKnown(data, s)
  ELSE IF Val(s.box).length = 0 /\ s.dst.seekable THEN AddSeekable(data, s)
  ELSE IF Val(s.box).length = 0 /\ s.appendingBoxes THEN AddReturn(s, 1)
  ELSE Only({AddCopied(s, cp) : cp \in {copyCurrentBox(s.rd, data, -1)}})

\* after the loop, w being the outcome of _writeBoxes(..., atEnd=True)
AddAppended(s, w) ==
  IF w.exc # "" THEN AddRaise([s EXCEPT !.dst = w.dst], w.exc)
  ELSE IF w.ret = Some(-1) THEN AddReturn([s EXCEPT !.dst = w.dst], 1)
  ELSE AddReturn([s EXCEPT !.dst = w.dst], 0)

AddEnd(s, opts) ==
  IF s.at > s.i + 1 THEN AddReturn(s, 1)
  ELSE IF s.appendingBoxes THEN Only({AddAppended(s, w) : w \in {_writeBoxes(s.dst, s.newboxes, opts, TRUE)}})
  ELSE AddReturn(s, 0)

AddStep(data, opts, s) ==
  IF s.pc = "start" THEN AddOpen(s)
  ELSE IF s.pc = "iter" THEN AddIter(data, s)
  ELSE IF s.pc = "insert" THEN AddInsertHere(s, opts)
  ELSE IF s.pc = "copy" THEN AddCopy(data, s)
  ELSE AddEnd(s, opts)

\* the boxes of the inputs, and the inputs: up to MaxBoxes boxes, the last
\* with explicit or implicit size
AddShapes == {[boxtype |-> AAAA, payload |-> <<>>, ext |-> FALSE], [boxtype |-> Exif, payload |-> <<97>>, ext |-> FALSE], [boxtype |-> Exif, payload |-> <<98>>, ext |-> TRUE]}

AddBoxLists == UNION {[1..n -> AddShapes] : n \in 0..MaxBoxes}

\* the input's last box has size 0
ImplicitLast(data) == \E bs \in AddBoxLists : Len(bs) > 0 /\ data = EncodeStream(bs, TRUE)

\* the fill bytes after an input: none, or as many as bring an implicit
\* box with the 8-byte header and no other payload to 0xFFFFFFFF bytes
AddFills(data) == IF ImplicitLast(data) THEN {Wide(0), [neg |-> FALSE, mag |-> <<0, 0, 0, 0, 0, 255, 255, 255, 247>>]} ELSE {Wide(0)}

AddDescriptorLists == UNION {[1..n -> Descriptors \ {<<97, 98, 61>>}] : n \in 0..MaxNewBoxes} \cup {<<<<97, 98, 61>>>>}

AddOptions == {[CompressionOptsDefault EXCEPT !.compressWhen = c] : c \in {COMPRESS_NEVER, COMPRESS_ALWAYS}}

InitAdd ==
  /\ src \in {EncodeStream(bs, imp) : bs \in AddBoxLists, imp \in BOOLEAN}
  /\ srcSeekable \in BOOLEAN
  /\ mode = MODE_KEEP
  /\ boxspecStrings = None
  /\ boxspecs = None
  /\ compOpts \in AddOptions
  /\ scan \in {AddStart(newboxes, at, srcSeekable, infill, outfile) : newboxes \in AddDescriptorLists, at \in -1..(MaxBoxes + 1), infill \in AddFills(src), outfile \in Outfiles(<<>>)}

\* stdin is counted, the reader is opened
AddBegin ==
  /\ scan.pc = "start"
  /\ scan' = AddStep(src, compOpts, scan)
  /\ UNCHANGED <<src, srcSeekable, mode, boxspecStrings, boxspecs, compOpts>>

\* the reader is asked for the next box
AddNextBox ==
  /\ scan.pc = "iter"
  /\ scan' = AddStep(src, compOpts, scan)
  /\ UNCHANGED <<src, srcSeekable, mode, boxspecStrings, boxspecs, compOpts>>

\* the new boxes are written before the current box
AddInsert ==
  /\ scan.pc = "insert"
  /\ scan' = AddStep(src, compOpts, scan)
  /\ UNCHANGED <<src, srcSeekable, mode, boxspecStrings, boxspecs, compOpts>>

\* a box is copied as it is
AddCopyBox ==
  /\ scan.pc = "copy" /\ (Val(scan.box).length # 0 \/ (~scan.known /\ ~scan.dst.seekable /\ ~scan.appendingBoxes))
  /\ scan' = AddStep(src, compOpts, scan)
  /\ UNCHANGED <<src, srcSeekable, mode, boxspecStrings, boxspecs, compOpts>>

\* the last box, of size 0, is written with the size worked out from the
\* input size
AddImplicitKnown ==
  /\ scan.pc = "copy" /\ Val(scan.box).length = 0 /\ scan.known
  /\ scan' = AddStep(src, compOpts, scan)
  /\ UNCHANGED <<src, srcSeekable, mode, boxspecStrings, boxspecs, compOpts>>

\* the last box, of size 0, is copied and its size set afterwards
AddImplicitSeekable ==
  /\ scan.pc = "copy" /\ Val(scan.box).length = 0 /\ ~scan.known /\ scan.dst.seekable
  /\ scan' = AddStep(src, compOpts, scan)
  /\ UNCHANGED <<src, srcSeekable, mode, boxspecStrings, boxspecs, compOpts>>

\* the size of the last box cannot be set and boxes are to follow it
AddImplicitFail ==
  /\ scan.pc = "copy" /\ Val(scan.box).length = 0 /\ ~scan.known /\ ~scan.dst.seekable /\ scan.appendingBoxes
  /\ scan' = AddStep(src, compOpts, scan)
  /\ UNCHANGED <<src, srcSeekable, mode, boxspecStrings, boxspecs, compOpts>>

\* the loop has ended: the position is checked, the new boxes are appended
AddFinish ==
  /\ scan.pc = "after"
  /\ scan' = AddStep(src, compOpts, scan)
  /\ UNCHANGED <<src, srcSeekable, mode, boxspecStrings, boxspecs, compOpts>>

NextAdd == AddBegin \/ AddNextBox \/ AddInsert \/ AddCopyBox \/ AddImplicitKnown \/ AddImplicitSeekable \/ AddImplicitFail \/ AddFinish

SpecAdd == InitAdd /\ [][NextAdd]_vars

\* ------------------------------------------------------------------------
\* doCount(filenames, boxspecStrings, justCheck, verbose, out): the `count`
\* and `has` commands.  files holds the content of the file "a" and of
\* standard input; any other name is of no file.  out is what was written
\* to out, as bytes
\* ------------------------------------------------------------------------

\* str(n) for n >= 0
RECURSIVE Str(_)
Str(n) == IF n < 10 THEN <<48 + n>> ELSE Str(n \div 10) \o <<48 + (n % 10)>>

\* boxspecStringsToBoxspecList(boxspecStrings) raises what BoxSpec raises
\* for the first string that is no selector
CountSpecsExc(strings) ==
  IF strings = None THEN ""
  ELSE LET bad == {k \in 1..Len(Val(strings)) : Val(strings)[k] \notin {<<64, 106, 120, 108>>, <<64, 74, 88, 76>>} /\ BoxSpecInit(Val(strings)[k]).exc # ""}
       IN IF bad = {} THEN "" ELSE BoxSpecInit(Val(strings)[CHOOSE k \in bad : \A j \in bad : k <= j]).exc

\* scanBoxes(src, dst, mode, boxspecs, compOpts) called with given of its
\* five arguments: no parameter has a default value, so a call that leaves
\* one out raises TypeError before the body runs, whatever src holds
scanBoxesArgs == 5

scanBoxesCall(given) == IF given < scanBoxesArgs THEN [exc |-> "TypeError", ret |-> 0] ELSE [exc |-> "", ret |-> 0]

CountStart(filenames, strings, justCheck, verbose) == [pc |-> "start", filenames |-> filenames, strings |-> strings, justCheck |-> justCheck, verbose |-> verbose, i |-> 0, usedStdin |-> FALSE, retval |-> 0, out |-> <<>>, result |-> None, exc |-> ""]

CountReturn(s, v) == [s EXCEPT !.pc = "returned", !.result = Some(v)]

CountRaise(s, e) == [s EXCEPT !.pc = "raised", !.exc = e]

\* the lines before the loop
CountOpen(s) ==
  IF CountSpecsExc(s.strings) = "InvalidBoxSpec" THEN CountReturn(s, 1)
  ELSE IF CountSpecsExc(s.strings) # "" THEN CountRaise(s, CountSpecsExc(s.strings))
  ELSE [s EXCEPT !.pc = "file"]

\* the loop body after the call of scanBoxes, which gave count
CountScanned(s, filename, count) ==
  LET multipleFiles == Len(s.filenames) > 1
      named == IF s.verbose \/ multipleFiles THEN s.out \o filename \o <<58, 32>> ELSE s.out
      counted == IF s.verbose \/ ~s.justCheck THEN named \o Str(count) \o <<10>> ELSE named
  IN IF count < 0 THEN (IF s.justCheck /\ ~s.verbose THEN CountReturn(s, 1) ELSE [s EXCEPT !.retval = 1, !.i = @ + 1])
     ELSE IF s.justCheck /\ count = 0 THEN (IF ~s.verbose THEN CountReturn([s EXCEPT !.out = counted], 1) ELSE [s EXCEPT !.out = counted, !.retval = 1, !.i = @ + 1])
     ELSE [s EXCEPT !.out = counted, !.i = @ + 1]

\* the file is opened and scanned: f is the outcome of openFileOrStdin, c
\* of scanBoxes(src, dst=None, mode=mode, boxspecs=boxspecs), a call with
\* four arguments
CountOpened(s, filename, f, c) ==
  IF f.exc # "" THEN CountRaise(s, f.exc)
  ELSE IF c.exc # "" THEN CountRaise(s, c.exc)
  ELSE CountScanned(s, filename, c.ret)

\* the loop body for filenames[i], from `with` on: filename is read from data
CountRead(s, filename, data) ==
  Only({CountOpened(s, filename, f, c) : f \in {openFileOrStdin(filename, FALSE)}, c \in {scanBoxesCall(4)}})

\* the loop body for filenames[i]
CountFile(files, s) ==
  IF s.filenames[s.i + 1] = <<45>> /\ s.usedStdin THEN (IF s.justCheck THEN CountReturn(s, 1) ELSE [s EXCEPT !.i = @ + 1])
  ELSE IF s.filenames[s.i + 1] = <<45>> THEN CountRead([s EXCEPT !.usedStdin = TRUE], <<45>>, files.stdin)
  ELSE CountRead(s, s.filenames[s.i + 1], files.a)

\* one step of doCount
CountStep(files, s) ==
  IF s.pc = "start" THEN CountOpen(s)
  ELSE IF s.i < Len(s.filenames) THEN CountFile(files, s)
  ELSE CountReturn(s, s.retval)

\* the file names: "a", "-" and "m", which names no file
CountNames == {<<97>>, <<45>>, <<109>>}

CountNameLists == UNION {[1..n -> CountNames] : n \in 0..MaxFiles}

\* what the files hold: nothing, one box, two boxes, a raw codestream, a
\* box with a type that is none
CountContents == {<<>>, EncodeStream(<<[boxtype |-> Exif, payload |-> <<97>>, ext |-> FALSE]>>, FALSE), EncodeStream(<<[boxtype |-> AAAA, payload |-> <<>>, ext |-> FALSE], [boxtype |-> Exif, payload |-> <<>>, ext |-> FALSE]>>, TRUE), RawMagic \o <<0, 17, 0, 0, 0, 0, 0, 0>>, <<0, 0, 0, 8, 1, 2, 3, 4>>}

\* 'zz=1' is no selector
CountSelectorLists == {None, Some(<<>>), Some(<<sel_type_Exif>>), Some(<<sel_i0>>), Some(<<<<122, 122, 61, 49>>>>)}

InitCount ==
  /\ src \in [a : CountContents, stdin : CountContents]
  /\ srcSeekable = TRUE
  /\ mode \in {MODE_COUNT, MODE_HAS}
  /\ boxspecStrings \in CountSelectorLists
  /\ boxspecs = None
  /\ compOpts = CompressionOptsDefault
  /\ scan \in {CountStart(filenames, boxspecStrings, mode = MODE_HAS, verbose) : filenames \in CountNameLists, verbose \in BOOLEAN}

\* the selectors are parsed
CountBegin ==
  /\ scan.pc = "start"
  /\ scan' = CountStep(src, scan)
  /\ UNCHANGED <<src, srcSeekable, mode, boxspecStrings, boxspecs, compOpts>>

\* the next file is opened and scanned, or passed over
CountNextFile ==
  /\ scan.pc = "file" /\ scan.i < Len(scan.filenames)
  /\ scan' = CountStep(src, scan)
  /\ UNCHANGED <<src, srcSeekable, mode, boxspecStrings, boxspecs, compOpts>>

\* no file is left: `return retval`
CountFinish ==
  /\ scan.pc = "file" /\ scan.i >= Len(scan.filenames)
  /\ scan' = CountStep(src, scan)
  /\ UNCHANGED <<src, srcSeekable, mode, boxspecStrings, boxspecs, compOpts>>

NextCount == CountBegin \/ CountNextFile \/ CountFinish

SpecCount == InitCount /\ [][NextCount]_vars

\* ------------------------------------------------------------------------
\* A client of CatReader: any sequence of read and seek calls on a reader
\* over up to MaxFiles inputs.  src holds the inputs; for each call the
\* state keeps its name (op), its arguments n and whence, what it returned
\* (ret) and the exception it raised (exc).  A call that never returns
\* ends the behaviour (pc = "hung").  Seeks go to the offsets -1..MaxSeek.
\* The reader can be closed, by close() or by leaving its `with` block, at
\* any time, and called after that
\* ------------------------------------------------------------------------

\* the bytes of input k are 16k, 16k + 1, ...: no byte is in two places
\* a bytes object, a seekable file, a file that is not seekable
CatKinds == {<<TRUE, TRUE>>, <<FALSE, TRUE>>, <<FALSE, FALSE>>}

CatFiles == UNION {[1..n -> {[data |-> [j \in 1..len |-> 0], pos |-> 0, seekable |-> k[2], bytes |-> k[1], closed |-> FALSE] : len \in 0..MaxFileLen, k \in CatKinds}] : n \in 0..MaxFiles}

CatNumbered(files) == [k \in 1..Len(files) |-> [files[k] EXCEPT !.data = [j \in 1..Len(@) |-> 16 * k + j - 1]]]

\* the client's state after the call op(n, whence) with outcome r
AfterCat(s, op, n, whence, r, ret) == [s EXCEPT !.pc = IF r.exc = "Hang" THEN "hung" ELSE "cat", !.cat = r.cat, !.op = op, !.n = n, !.whence = whence, !.ret = ret, !.exc = r.exc]

InitCat ==
  /\ src \in {CatNumbered(files) : files \in CatFiles}
  /\ srcSeekable = FALSE
  /\ mode = MODE_KEEP
  /\ boxspecStrings = None
  /\ boxspecs = None
  /\ compOpts = CompressionOptsDefault
  /\ scan \in {[pc |-> "cat", closeFiles |-> closeFiles, cat |-> CatReaderOpen(closeFiles, src), op |-> "", n |-> 0, whence |-> SEEK_SET, ret |-> <<>>, exc |-> ""] : closeFiles \in BOOLEAN}

\* reader.read(n), reader.read()
CatRead ==
  /\ scan.pc = "cat"
  /\ \E n \in -1..MaxSeek : \E r \in {CatReader_read(scan.cat, n)} : scan' = AfterCat(scan, "read", n, SEEK_SET, r, r.data)
  /\ UNCHANGED <<src, srcSeekable, mode, boxspecStrings, boxspecs, compOpts>>

\* reader.seek(n), reader.seek(n, io.SEEK_SET)
CatSeekSet ==
  /\ scan.pc = "cat"
  /\ \E n \in 0..MaxSeek : \E r \in {CatReader_seek(scan.cat, n, SEEK_SET)} : scan' = AfterCat(scan, "seek", n, SEEK_SET, r, r.ret)
  /\ UNCHANGED <<src, srcSeekable, mode, boxspecStrings, boxspecs, compOpts>>

\* reader.seek(n, io.SEEK_CUR)
CatSeekCur ==
  /\ scan.pc = "cat"
  /\ \E n \in -1..MaxSeek : CatReader_tell(scan.cat) + n \in -1..MaxSeek /\ \E r \in {CatReader_seek(scan.cat, n, SEEK_CUR)} : scan' = AfterCat(scan, "seek", n, SEEK_CUR, r, r.ret)
  /\ UNCHANGED <<src, srcSeekable, mode, boxspecStrings, boxspecs, compOpts>>

\* reader.seek(n, io.SEEK_END)
CatSeekEnd ==
  /\ scan.pc = "cat"
  /\ \E n \in {0} : \E r \in {CatReader_seek(scan.cat, n, SEEK_END)} : scan' = AfterCat(scan, "seek", n, SEEK_END, r, r.ret)
  /\ UNCHANGED <<src, srcSeekable, mode, boxspecStrings, boxspecs, compOpts>>

\* reader.close()
CatClose ==
  /\ scan.pc = "cat"
  /\ scan' = [scan EXCEPT !.cat = CatReader_close(@), !.op = "close", !.n = 0, !.whence = SEEK_SET, !.ret = <<>>, !.exc = ""]
  /\ UNCHANGED <<src, srcSeekable, mode, boxspecStrings, boxspecs, compOpts>>

\* the `with` block over the reader is left
CatExit ==
  /\ scan.pc = "cat"
  /\ scan' = [scan EXCEPT !.cat = CatReader_exit(@), !.op = "exit", !.n = 0, !.whence = SEEK_SET, !.ret = <<>>, !.exc = ""]
  /\ UNCHANGED <<src, srcSeekable, mode, boxspecStrings, boxspecs, compOpts>>

NextCat == CatRead \/ CatSeekSet \/ CatSeekCur \/ CatSeekEnd \/ CatClose \/ CatExit

SpecCat == InitCat /\ [][NextCat]_vars

\* ------------------------------------------------------------------------
\* The box format, read off the bytes of an input: what a scan is measured
\* against
\* ------------------------------------------------------------------------

Printable4(t) == Len(t) = 4 /\ \A k \in 1..4 : t[k] >= 32 /\ t[k] <= 126

\* the box whose header starts at offset off: a size field of 1 announces a
\* 64-bit size after the type, a size of 0 a box that runs to the end of the
\* input; inner is the type a brob box wraps
RefBox(data, off) ==
  LET len32 == BigEndian(Slice(data, off, off + 4), 0)
      ext == len32 = 1
      hlen == IF ext THEN 16 ELSE 8
      length == IF ext THEN BigEndian(Slice(data, off + 8, off + 16), 0) ELSE len32
      boxtype == Slice(data, off + 4, off + 8)
  IN [start |-> off, ext |-> ext, hlen |-> hlen, length |-> length, end |-> IF length = 0 THEN Len(data) ELSE off + length, boxtype |-> boxtype, inner |-> IF boxtype = brob THEN Slice(data, off + hlen, off + hlen + 4) ELSE boxtype]

\* what is wrong with the box at offset off; "" when it is a whole box
RefWhy(data, off) ==
  IF Len(data) - off < 8 THEN "header"
  ELSE IF Slice(data, off, off + 4) = <<0, 0, 0, 1>> /\ Len(data) - off < 16 THEN "header"
  ELSE IF ~Printable4(RefBox(data, off).boxtype) THEN "type"
  ELSE IF RefBox(data, off).length # 0 /\ RefBox(data, off).length < RefBox(data, off).hlen THEN "length"
  ELSE IF RefBox(data, off).end > Len(data) THEN "truncated"
  ELSE IF RefBox(data, off).boxtype = brob /\ ~Printable4(RefBox(data, off).inner) THEN "brob"
  ELSE ""

\* the whole boxes at the front of the input, and what stopped the parse at
\* offset at ("" when the input is boxes from end to end)
RECURSIVE RefScan(_, _, _)
RefScan(data, off, acc) ==
  IF off >= Len(data) THEN [boxes |-> acc, why |-> "", at |-> off]
  ELSE IF RefWhy(data, off) # "" THEN [boxes |-> acc, why |-> RefWhy(data, off), at |-> off]
  ELSE RefScan(data, RefBox(data, off).end, Append(acc, RefBox(data, off)))

\* an input that starts with the raw-codestream magic and has no 4CC at
\* bytes 4..8
IsRaw(data) == StartsWith(data, RawMagic) /\ ~Printable4(Slice(data, 4, 8))

Ref(data) == IF IsRaw(data) THEN [boxes |-> <<>>, why |-> "raw", at |-> 0] ELSE RefScan(data, 0, <<>>)

WellFormed(data) == Ref(data).why = ""

\* the bytes of a box of the input
RefBytes(data, b) == Slice(data, b.start, b.end)

RefPayload(data, b) == Slice(data, b.start + b.hlen, b.end)


\* what each selector used here means for the box of index i
RefSelAccepts(sel, i, b) ==
  CASE sel = sel_i0 -> i = 0
    [] sel = sel_i1up -> i >= 1
    [] sel = sel_iupto0 -> i <= 0
    [] sel = sel_i1to2 -> i >= 1 /\ i <= 2
    [] sel = sel_i3 -> i = 3
    [] sel = sel_type_Exif -> b.inner = Exif
    [] sel = sel_TYPE_Exif -> b.boxtype = Exif
    [] sel = sel_TYPE_brob -> b.boxtype = brob
    [] sel = sel_type_brob -> b.inner = brob
    [] sel = sel_itype_EXIF -> Lower(b.inner) = Lower(Exif)
    [] sel = sel_typeglob -> b.inner[2] = 120

\* box k (from 1) is accepted by the selector list: the null list accepts
\* every box, the empty list none
RefAccepts(strings, boxes, k) == strings = None \/ \E n \in 1..Len(Val(strings)) : RefSelAccepts(Val(strings)[n], k - 1, boxes[k])

\* the bytes of the boxes with index in keep, in input order
RECURSIVE RefConcat(_, _, _, _)
RefConcat(data, boxes, keep, k) ==
  IF k > Len(boxes) THEN <<>>
  ELSE (IF k \in keep THEN RefBytes(data, boxes[k]) ELSE <<>>) \o RefConcat(data, boxes, keep, k + 1)

\* the first box the selector list accepts, 0 when there is none
RefFirst(strings, boxes) == IF \E k \in 1..Len(boxes) : RefAccepts(strings, boxes, k) THEN CHOOSE k \in 1..Len(boxes) : RefAccepts(strings, boxes, k) /\ \A j \in 1..(k - 1) : ~RefAccepts(strings, boxes, j) ELSE 0

\* the scan has ended; it has returned v
Done == scan.pc \in {"returned", "raised"}

Returned(v) == scan.pc = "returned" /\ scan.result = Some(v)

\* ------------------------------------------------------------------------
\* Claims
\* ------------------------------------------------------------------------

\* a keep-all selection: MODE_DROP with the empty list, MODE_KEEP with the
\* null list
KeepAll == (mode = MODE_DROP /\ boxspecStrings = Some(<<>>)) \/ (mode = MODE_KEEP /\ boxspecStrings = None)

\* C1: passthrough is the identity.  A keep-all scan (MODE_DROP with an empty
\* selector list, MODE_KEEP with a null one, no compression) of a well-formed
\* box stream returns 0 and has written exactly the input bytes, brob boxes,
\* extended-size boxes and an implicit-size final box included.
C1_PassthroughIdentity == (Done /\ KeepAll /\ WellFormed(src)) => (Returned(0) /\ scan.dst.data = src)

\* the boxes a filter writes: the accepted ones in MODE_KEEP, the others in
\* MODE_DROP
RefKept(m, strings, boxes) == {k \in 1..Len(boxes) : RefAccepts(strings, boxes, k) <=> (m = MODE_KEEP)}

\* C2: without compression, MODE_KEEP of a well-formed input returns 0 and has
\* written exactly the boxes accepted by at least one selector, MODE_DROP
\* exactly the boxes accepted by none, each box verbatim and in input order;
\* index selectors are inclusive and an open endpoint is unbounded, so that
\* keeping i=1..2 of a four-box file writes what dropping i=0 and i=3 writes.
C2_FilterExactBoxes ==
  (Done /\ mode \in {MODE_KEEP, MODE_DROP} /\ WellFormed(src)) =>
    /\ Returned(0)
    /\ scan.dst.data = RefConcat(src, Ref(src).boxes, RefKept(mode, boxspecStrings, Ref(src).boxes), 1)
    /\ (mode = MODE_KEEP /\ boxspecStrings = Some(<<sel_i1to2>>) /\ Len(Ref(src).boxes) = 4) => scan.dst.data = doScanBoxes(src, srcSeekable, MODE_DROP, Some(<<sel_i0, sel_i3>>)).dst.data

\* C3: MODE_COUNT of a well-formed input returns the number of boxes accepted
\* by at least one selector: every box for the null list, none for the empty
\* list, and 0 for the empty input.
C3_CountAccepted == (Done /\ mode = MODE_COUNT /\ WellFormed(src)) => Returned(Cardinality(RefKept(MODE_KEEP, boxspecStrings, Ref(src).boxes)))

\* the reader has read no byte after the header of box b, or after the inner
\* type of a brob box
ReadNothingAfter(b) == scan.rd.pos <= b.start + b.hlen + (IF b.boxtype = brob THEN 4 ELSE 0)

\* C4: MODE_HAS returns 1 as soon as the first matching box is reached and
\* reads nothing after it, whatever follows that box; when no box of a
\* well-formed input matches it returns 0.
C4_HasStopsAtFirstMatch ==
  (Done /\ mode = MODE_HAS /\ ~IsRaw(src)) =>
    /\ RefFirst(boxspecStrings, Ref(src).boxes) # 0 => (Returned(1) /\ ReadNothingAfter(Ref(src).boxes[RefFirst(boxspecStrings, Ref(src).boxes)]))
    /\ (RefFirst(boxspecStrings, Ref(src).boxes) = 0 /\ WellFormed(src)) => Returned(0)

\* C5: an input that starts with the raw-codestream magic FF 0A and has no
\* valid 4CC at bytes 4..8 makes a scan in any mode return RAW_JXL, whatever
\* the length of the raw codestream.
C5_RawCodestream == (Done /\ IsRaw(src)) => Returned(RAW_JXL)

\* C6: a MODE_COUNT scan returns FAILED_PARSE when a box is truncated (its
\* declared length runs beyond the end of the input), when a header is short,
\* when a type byte is not printable and when a declared length is smaller
\* than the header.
C6_CountFailedParse == (Done /\ mode = MODE_COUNT /\ Ref(src).why \in {"truncated", "header", "type", "length"}) => Returned(FAILED_PARSE)

\* the input stops inside a box that the scan copies: the box after the whole
\* boxes is truncated with its type (and inner type) present, and it is the
\* first accepted box (MODE_EXTRACT_FIRST) or a box the filter writes
TruncatedCopy ==
  /\ Ref(src).why = "truncated"
  /\ LET r == Ref(src)
         all == Append(r.boxes, RefBox(src, r.at))
         n == Len(all)
     IN /\ Printable4(all[n].inner)
        /\ IF mode = MODE_EXTRACT_FIRST THEN RefFirst(boxspecStrings, all) = n ELSE n \in RefKept(mode, boxspecStrings, all)

\* C7: in MODE_KEEP, MODE_DROP and MODE_EXTRACT_FIRST an input on which the
\* payload of a copied box ends before its declared length is reported as a
\* structural error: scanBoxes returns FAILED_PARSE and no other exception
\* leaves the scan.
C7_TruncatedCopyFailedParse == (Done /\ mode \in {MODE_KEEP, MODE_DROP, MODE_EXTRACT_FIRST} /\ TruncatedCopy) => Returned(FAILED_PARSE)

\* C8: for every input a scan gives the same result (the return value, or
\* the exception, and the bytes written) on a seekable and on a non-seekable
\* source, also when the last box is truncated.
C8_SeekableEquivalence ==
  Done => LET other == doScanBoxes(src, ~srcSeekable, mode, boxspecStrings)
          IN other.pc = scan.pc /\ other.result = scan.result /\ other.exc = scan.exc /\ other.dst.data = scan.dst.data

\* C10: MODE_EXTRACT_FIRST without decompression writes exactly the payload
\* (the box bytes after the 8- or 16-byte header; for a brob box the inner
\* 4CC and then the compressed data) of the first box accepted by a selector
\* and returns 0; when no box of a well-formed input is accepted it writes
\* nothing and returns non-zero.
C10_ExtractFirstPayload ==
  (Done /\ mode = MODE_EXTRACT_FIRST /\ ~IsRaw(src)) =>
    /\ RefFirst(boxspecStrings, Ref(src).boxes) # 0 => (Returned(0) /\ scan.dst.data = RefPayload(src, Ref(src).boxes[RefFirst(boxspecStrings, Ref(src).boxes)]))
    /\ (RefFirst(boxspecStrings, Ref(src).boxes) = 0 /\ WellFormed(src)) => (scan.pc = "returned" /\ scan.result # Some(0) /\ scan.dst.data = <<>>)

\* the selector list type=T, one selector for the inner type T of each brob
\* box
InnerTypeSelectors(boxes) == [k \in 1..Len(SelectSeq(boxes, LAMBDA b : b.boxtype = brob)) |-> <<116, 121, 112, 101, 61>> \o SelectSeq(boxes, LAMBDA b : b.boxtype = brob)[k].inner]

\* no box that is not a brob box has the type that a brob box wraps
NoPlainInner(boxes) == \A j, k \in 1..Len(boxes) : (boxes[j].boxtype # brob /\ boxes[k].boxtype = brob) => boxes[j].boxtype # boxes[k].inner

\* a scan that drops TYPE=brob from a well-formed input has ended
DropBrobDone == Done /\ mode = MODE_DROP /\ boxspecStrings = Some(<<sel_TYPE_brob>>) /\ WellFormed(src)

\* the same input with the inner types of its brob boxes dropped by type=
DropInnerTypes == doScanBoxes(src, srcSeekable, MODE_DROP, Some(InnerTypeSelectors(Ref(src).boxes)))

\* C9 as stated: dropping TYPE=brob writes what dropping type= each inner
\* type of the brob boxes writes, on every well-formed input.
C9_DropBrobEqualsDropInner == DropBrobDone => DropInnerTypes.dst.data = scan.dst.data

\* C9: a selector written type or itype is compared with the inner type of a
\* brob box, a selector written TYPE with the outer type only, so TYPE=Exif
\* never matches a brob box that wraps Exif; dropping TYPE=brob writes exactly
\* the boxes that are not brob boxes, and that is what dropping type= each of
\* their inner types writes and returns provided no box that is not a brob
\* box has one of those types.
C9_TypeSelectors ==
  /\ (scan.pc = "body" /\ boxspecStrings \in {Some(<<sel_type_Exif>>), Some(<<sel_TYPE_Exif>>), Some(<<sel_TYPE_brob>>), Some(<<sel_type_brob>>), Some(<<sel_itype_EXIF>>)})
       => (scan.matches <=> RefSelAccepts(Val(boxspecStrings)[1], scan.i, RefBox(src, Val(scan.box).offset)))
  /\ DropBrobDone => scan.dst.data = RefConcat(src, Ref(src).boxes, {k \in 1..Len(Ref(src).boxes) : Ref(src).boxes[k].boxtype # brob}, 1)
  /\ (DropBrobDone /\ NoPlainInner(Ref(src).boxes)) => (DropInnerTypes.dst.data = scan.dst.data /\ DropInnerTypes.result = scan.result)

\* a scan that dropped TYPE=brob from an input with a brob box and another
\* box has returned 0, having written some of the input but not all of it
C9_Witness ==
  /\ DropBrobDone /\ Returned(0)
  /\ \E k \in 1..Len(Ref(src).boxes) : Ref(src).boxes[k].boxtype = brob
  /\ NoPlainInner(Ref(src).boxes)
  /\ scan.dst.data # <<>> /\ scan.dst.data # src

\* ------------------------------------------------------------------------
\* Compressing and decompressing boxes (SpecComp)
\* ------------------------------------------------------------------------

\* the box at hand, read off the input
CurBox == RefBox(src, Val(scan.box).offset)

\* the compression action of the box at hand
CurAction == getAction(compOpts, scan.i, Val(scan.box), Some(scan.innerType), SeenGet(scan.seen, scan.innerType))

\* the scan is about to copy the box at hand to the sink
Copying == scan.pc = "body" /\ ScanBranch(Args, scan) = "copy" /\ ~scan.writtenFinalBox

\* ... compressed; decompressed
Compressing == Copying /\ CurAction \in {COMPRESS_AUTO, COMPRESS_ALWAYS}

Decompressing == Copying /\ CurAction = DECOMPRESS_ALWAYS

\* the step went through the loop body without an exception
BodyDone == scan'.pc = "iter"

\* what the step wrote to the sink
Emitted == From(scan'.dst.data, scan.dst.pos)

\* the outcome of decompressing a whole stream
Decoded(stream) == BrotliDecompress(BrotliDecompressor, stream)

\* C11: a compress action emits a brob box whose payload is the type of the
\* original box and then the Brotli stream of the original box's payload
\* alone, so that decompressing it gives back that payload.
C11_CompressPayloadOnly ==
  [][(Compressing /\ BodyDone) =>
       /\ Slice(Emitted, 4, 8) = brob
       /\ Slice(Emitted, 8, 12) = CurBox.boxtype
       /\ Decoded(From(Emitted, 12)).exc = ""
       /\ Decoded(From(Emitted, 12)).d.fin
       /\ Decoded(From(Emitted, 12)).out = RefPayload(src, CurBox)]_vars

\* C12: a box compressed or decompressed onto a sink that is not seekable
\* is emitted with a size field of 0.
C12_UnseekableSizeZero ==
  [][((Compressing \/ Decompressing) /\ BodyDone /\ ~scan.dst.seekable) => Slice(Emitted, 0, 4) = <<0, 0, 0, 0>>]_vars

\* C13: once writtenFinalBox is set it stays set and the sink is never
\* written again: a box selected for output raises UnseekableOutputError
\* and leaves the sink as it was, a box that is not selected is skipped
\* and the scan goes on to the next box.
C13_NothingAfterFinalBox ==
  [][scan.writtenFinalBox =>
       /\ scan'.writtenFinalBox
       /\ scan'.dst = scan.dst
       /\ (scan.pc = "body" /\ ScanBranch(Args, scan) = "copy") => (scan'.pc = "raised" /\ scan'.exc = "UnseekableOutputError")
       /\ (scan.pc = "body" /\ ScanBranch(Args, scan) = "skip") => scan'.pc = "iter"]_vars

\* a scan onto a pipe has written a recoded box, and the next box it was to
\* write raised UnseekableOutputError
C13_Witness ==
  /\ scan.pc = "raised" /\ scan.exc = "UnseekableOutputError"
  /\ scan.writtenFinalBox /\ ~scan.dst.seekable
  /\ scan.i = 1 /\ Len(scan.dst.data) > 8

\* C14: on a seekable sink, a box that was compressed or decompressed has
\* in its size field the number of bytes written for it, its header
\* included; the sink is left at the end of the box, so that every later
\* write is after it; a decompressed box has the inner type as its type.
C14_SeekableSizePatched ==
  [][scan.dst.seekable =>
       /\ scan'.dst.pos = Len(scan'.dst.data)
       /\ StartsWith(scan'.dst.data, scan.dst.data)
       /\ ((Compressing \/ Decompressing) /\ BodyDone) => (Len(Emitted) >= 8 /\ UnpackI(Slice(Emitted, 0, 4)) = Len(Emitted))
       /\ (Decompressing /\ BodyDone) => Slice(Emitted, 4, 8) = scan.innerType]_vars

\* a brob box was written decompressed to a seekable sink, with its size, and
\* the box after it was written behind it
C14_Witness ==
  /\ Returned(0) /\ scan.dst.seekable /\ mode = MODE_KEEP /\ boxspecStrings = None
  /\ compOpts.decompressWhen = DECOMPRESS_ALWAYS
  /\ Len(Ref(src).boxes) = 2 /\ Ref(src).boxes[1].boxtype = brob /\ Ref(src).boxes[2].boxtype = AAAA
  /\ Slice(scan.dst.data, 4, 8) = Exif
  /\ UnpackI(Slice(scan.dst.data, 0, 4)) > 8
  /\ From(scan.dst.data, UnpackI(Slice(scan.dst.data, 0, 4))) = RefBytes(src, Ref(src).boxes[2])

\* the scan is about to extract the brob box at hand decompressed
ExtractDecompressing == scan.pc = "body" /\ ScanBranch(Args, scan) = "extract" /\ compOpts.decompressWhen # DECOMPRESS_NEVER /\ Val(scan.box).boxtype = brob

\* the scan is about to decompress the box at hand, into a box or bare
Inflating == Decompressing \/ ExtractDecompressing

\* the plain text of the brob box at hand, when its payload after the
\* inner type is a whole Brotli stream
CurPlain == Decoded(From(RefPayload(src, CurBox), 4))

ValidStream == CurPlain.exc = "" /\ CurPlain.d.fin

\* the decoded bytes the step wrote: what it wrote, less the box header
DecodedWritten == IF Decompressing THEN From(Emitted, 8) ELSE Emitted

\* the step ended without an exception
StepDone == scan'.pc \in {"iter", "returned"}

\* C15: with decompressMax > 0, a box whose plain text is longer than
\* decompressMax raises TooMuchDataError, the decoded bytes written for a
\* box are the front of its plain text and never more than decompressMax,
\* and a box whose plain text is at most decompressMax bytes, also exactly
\* decompressMax bytes, is decompressed whole.
C15_DecompressMax ==
  [][(Inflating /\ ValidStream /\ compOpts.decompressMax > 0) =>
       /\ Len(DecodedWritten) <= compOpts.decompressMax
       /\ StartsWith(CurPlain.out, DecodedWritten)
       /\ (Len(CurPlain.out) > compOpts.decompressMax) => (scan'.pc = "raised" /\ scan'.exc = "TooMuchDataError")
       /\ (Len(CurPlain.out) <= compOpts.decompressMax) => (StepDone /\ DecodedWritten = CurPlain.out)]_vars

\* a box was extracted decompressed up to the first block of IO_BLOCK_SIZE,
\* which decoded to exactly decompressMax bytes, and the second block
\* raised TooMuchDataError
C15_Witness ==
  /\ scan.pc = "raised" /\ scan.exc = "TooMuchDataError"
  /\ mode = MODE_EXTRACT_FIRST
  /\ compOpts.decompressMax > 0
  /\ Len(scan.dst.data) = compOpts.decompressMax

\* C16: with decompressMax = -1 a box of any plain-text size is
\* decompressed whole; with decompressMax = 0 no brob box is decompressed:
\* the box is written as it is in the input, or its payload extracted as
\* it is.
C16_DecompressMaxSpecial ==
  [][(Inflating /\ ValidStream) =>
       /\ (compOpts.decompressMax = -1) => (StepDone /\ DecodedWritten = CurPlain.out)
       /\ (compOpts.decompressMax = 0) => (StepDone /\ Emitted = (IF Decompressing THEN RefBytes(src, CurBox) ELSE RefPayload(src, CurBox)))]_vars

\* ------------------------------------------------------------------------
\* Return codes of the commands (SpecCommand)
\* ------------------------------------------------------------------------

\* the plain text of the box at hand is longer than a positive decompressMax
TooBig == ValidStream /\ compOpts.decompressMax > 0 /\ Len(CurPlain.out) > compOpts.decompressMax

\* C17: when the plain text of a box that is decompressed is longer than
\* decompressMax, scanBoxes returns DECOMP_TOO_BIG, and doExtractBox then
\* returns 2.
C17_TooBigReturnCodes ==
  [][/\ (Inflating /\ TooBig) => (scan'.pc = "returned" /\ scan'.result = Some(DECOMP_TOO_BIG))
     /\ (ExtractDecompressing /\ TooBig) => (scan'.pc = "returned" /\ CommandLeave(mode, scan').code = Some(2))]_vars

\* the command has ended: it returned a code, or an exception left it
Exited == scan.pc \in {"exit", "failed"}

\* C18: doFilter and doExtractBox return 0, 1 or 2: 2 for extract without a
\* selector, 1 for a raw codestream given to filter and for extract from a
\* well-formed input none of whose boxes is selected.
C18_ExitCodes ==
  Exited =>
    /\ scan.pc = "exit" /\ Val(scan.code) \in {0, 1, 2}
    /\ (mode = MODE_EXTRACT_FIRST /\ boxspecStrings = Some(<<>>)) => scan.code = Some(2)
    /\ (mode # MODE_EXTRACT_FIRST /\ IsRaw(src)) => scan.code = Some(1)
    /\ (mode = MODE_EXTRACT_FIRST /\ boxspecStrings = Some(<<sel_i9>>) /\ WellFormed(src)) => scan.code = Some(1)

\* ------------------------------------------------------------------------
\* Box headers written and read back (SpecHeader)
\* ------------------------------------------------------------------------

\* the payload size is at most 0xFFFFFFF7
FitsShortHeader(payloadSize) == MagLE(payloadSize.mag, <<0, 0, 0, 0, 0, 255, 255, 255, 247>>, 1)

\* the file holds one box for the reader of small sizes: nextBox returns
\* it, and the nextBox after that returns None
ReadsBackAsOneBox ==
  LET first == nextBox(BoxReaderOpen, src, TRUE)
      second == nextBox(first.rd, src, TRUE)
  IN /\ first.exc = "" /\ first.box # None
     /\ Val(first.box).boxtype = scan.boxtype
     /\ Wide(Val(first.box).length) = Val(scan.read.box).length
     /\ Val(first.box).length = Len(src)
     /\ second.exc = "" /\ second.box = None

\* C19: the header writeBoxHeader writes is read back by nextBox as a box
\* of the same type; for payloadSize >= 0 its length is the header bytes
\* plus payloadSize, and the header has 8 bytes when 8 + payloadSize <=
\* 0xFFFFFFFF and 16 bytes otherwise; for payloadSize < 0 the header is 8
\* bytes with the size field 0, read back as a box that runs to the end of
\* the file.  writeBoxHeader returns the number of bytes it wrote.
C19_HeaderRoundTrip ==
  scan.pc = "read" =>
    /\ scan.exc = ""
    /\ scan.ret = Len(src) - (IF IsSmall(scan.payloadSize) THEN UnpackI(scan.payloadSize.mag) ELSE 0)
    /\ scan.read.exc = "" /\ scan.read.box # None
    /\ Val(scan.read.box).boxtype = scan.boxtype
    /\ scan.payloadSize.neg => (src = <<0, 0, 0, 0>> \o scan.boxtype /\ Val(scan.read.box).length = Wide(0) /\ scan.read.eof)
    /\ ~scan.payloadSize.neg =>
         /\ scan.ret = (IF FitsShortHeader(scan.payloadSize) THEN 8 ELSE 16)
         /\ Val(scan.read.box).hasExtendedSize = ~FitsShortHeader(scan.payloadSize)
         /\ Val(scan.read.box).length = WideAdd(scan.payloadSize, scan.ret)
         /\ ~scan.read.eof
    /\ IsSmall(scan.payloadSize) => ReadsBackAsOneBox

\* a header for a payload of 2^32 - 8 bytes, the first that does not fit
\* the 8-byte form, was written in 16 bytes and read back
C19_Witness ==
  /\ scan.pc = "read"
  /\ scan.payloadSize = [neg |-> FALSE, mag |-> <<0, 0, 0, 0, 0, 255, 255, 255, 248>>]
  /\ Len(src) = 16
  /\ Val(scan.read.box).length = [neg |-> FALSE, mag |-> <<0, 0, 0, 0, 1, 0, 0, 0, 8>>]

\* ------------------------------------------------------------------------
\* One read mode per box (SpecReader)
\* ------------------------------------------------------------------------

\* the step is a call of one of ops
Called(ops) == scan'.op \in ops

CatTarget == IF scan'.whence = SEEK_SET THEN scan'.n ELSE CatReader_tell(scan.cat) + scan'.n

\* C30: every read returns the bytes of the concatenation of the inputs
\* from the offset tell() reported before it (n of them, or all that are
\* left, nothing at the end) and moves tell() by their number; a forward
\* seek, absolute or relative, returns the new tell(), which is the offset
\* asked for, or, when that is past the end of the concatenation, an
\* offset at or past the end; a backward seek fails.
C30_CatReaderIsConcatenation ==
  [][/\ scan'.op = "read" =>
          /\ scan'.exc = ""
          /\ scan'.ret = (IF scan'.n = -1 THEN From(CatData(src), CatReader_tell(scan.cat)) ELSE Slice(CatData(src), CatReader_tell(scan.cat), CatReader_tell(scan.cat) + scan'.n))
          /\ CatReader_tell(scan'.cat) = CatReader_tell(scan.cat) + Len(scan'.ret)
     /\ (scan'.op = "seek" /\ scan'.whence \in {SEEK_SET, SEEK_CUR} /\ CatTarget >= CatReader_tell(scan.cat)) =>
          /\ scan'.exc = ""
          /\ scan'.ret = CatReader_tell(scan'.cat)
          /\ IF CatTarget <= Len(CatData(src)) THEN CatReader_tell(scan'.cat) = CatTarget ELSE CatReader_tell(scan'.cat) >= Len(CatData(src))
     /\ (scan'.op = "seek" /\ scan'.whence \in {SEEK_SET, SEEK_CUR} /\ CatTarget < CatReader_tell(scan.cat)) =>
          (scan'.exc \notin {"", "Hang"} /\ scan'.cat = scan.cat)]_vars

\* ------------------------------------------------------------------------
\* The extractor's state machine (SpecExtract)
\* ------------------------------------------------------------------------

\* the box the loop body runs on, and the boxes of the input before it
JxlBox == RefBox(src, Val(scan.box).offset)

JxlBefore == SubSeq(Ref(src).boxes, 1, scan.rd._index)

\* the indices of the jxlp boxes among bs
JxlpIn(bs) == {k \in 1..Len(bs) : bs[k].boxtype = jxlp}

\* a jxlp box whose sequence number has the top bit set
IsTerminal(b) == Len(RefPayload(src, b)) >= 4 /\ RefPayload(src, b)[1] >= 128

\* the sequence number of a jxlp box with the top bit cleared; -1 when the
\* payload is too short to hold one
SeqOf(b) == IF Len(RefPayload(src, b)) < 4 THEN -1 ELSE BigEndian(<<RefPayload(src, b)[1] % 128>> \o SubSeq(RefPayload(src, b), 2, 4), 0)

JxlcAllowed == \A k \in 1..Len(JxlBefore) : JxlBefore[k].boxtype \notin {jxlc, jxlp}

JxlpAllowed ==
  /\ \A k \in 1..Len(JxlBefore) : JxlBefore[k].boxtype # jxlc /\ ~(JxlBefore[k].boxtype = jxlp /\ IsTerminal(JxlBefore[k]))
  /\ SeqOf(JxlBox) = Cardinality(JxlpIn(JxlBefore))

\* the step accepts the box: the loop goes on
Accepted == scan'.pc = "iter"

\* the step ends the extraction in one of the two ways named
Refused == (scan'.pc = "raised" /\ scan'.exc = "InvalidJxlContainerError") \/ (scan'.pc = "returned" /\ Val(scan'.result) # 0)

\* C21: a jxlc box is accepted if and only if no jxlc and no jxlp box came
\* before it; a jxlp box if and only if no jxlc and no terminal jxlp came
\* before it and its sequence number, top bit cleared, is the number of jxlp
\* boxes before it; a jxlc or jxlp box that is not accepted ends the
\* extraction with InvalidJxlContainerError or a non-zero return value; a
\* box of any other type is passed over: the loop goes on and nothing is
\* written.
C21_JxlStateMachine ==
  [][scan.pc = "body" =>
       /\ JxlBox.boxtype = jxlc => IF JxlcAllowed THEN Accepted ELSE Refused
       /\ JxlBox.boxtype = jxlp => IF JxlpAllowed THEN Accepted ELSE Refused
       /\ JxlBox.boxtype \notin {jxlc, jxlp} => (Accepted /\ scan'.dst = scan.dst)]_vars

\* ------------------------------------------------------------------------
\* What the extractor writes and returns (SpecExtract)
\* ------------------------------------------------------------------------

\* the boxes of the input; none when it is not boxes from end to end
JxlBoxes == IF WellFormed(src) THEN Ref(src).boxes ELSE <<>>

HasSignature == StartsWith(src, JXL_CONTAINER_SIG)

JxlcIn(bs) == {k \in 1..Len(bs) : bs[k].boxtype = jxlc}

\* the codestream boxes are one jxlc box, or jxlp boxes numbered 0, 1, ...
\* in input order of which none but the last is marked terminal
GoodCodestreamBoxes ==
  \/ Cardinality(JxlcIn(JxlBoxes)) = 1 /\ JxlpIn(JxlBoxes) = {}
  \/ /\ JxlcIn(JxlBoxes) = {} /\ JxlpIn(JxlBoxes) # {}
     /\ \A k \in JxlpIn(JxlBoxes) : SeqOf(JxlBoxes[k]) = Cardinality({j \in JxlpIn(JxlBoxes) : j < k})
     /\ \A k \in JxlpIn(JxlBoxes) : IsTerminal(JxlBoxes[k]) => \A j \in JxlpIn(JxlBoxes) : j <= k

\* every jxll box has its level byte
GoodLevelBoxes == \A k \in 1..Len(JxlBoxes) : JxlBoxes[k].boxtype = jxll => Len(RefPayload(src, JxlBoxes[k])) >= 1

ValidContainer == HasSignature /\ WellFormed(src) /\ GoodCodestreamBoxes /\ GoodLevelBoxes

\* the codestream of the boxes from k on: jxlc payloads, and jxlp payloads
\* without their first four bytes
RECURSIVE Codestream(_, _)
Codestream(bs, k) ==
  IF k > Len(bs) THEN <<>>
  ELSE (IF bs[k].boxtype = jxlc THEN RefPayload(src, bs[k]) ELSE IF bs[k].boxtype = jxlp THEN From(RefPayload(src, bs[k]), 4) ELSE <<>>) \o Codestream(bs, k + 1)

\* C22: for a valid container the extractor returns 0 and what it has
\* written is the payload of the jxlc box, or the payloads of the jxlp
\* boxes in input order without their four-byte sequence numbers, and
\* nothing else.
C22_ExtractsCodestream == (Done /\ ValidContainer) => (Returned(0) /\ scan.dst.data = Codestream(JxlBoxes, 1))

\* a valid container of three boxes after the signature: two jxlp boxes
\* with another box between them
C22_Witness ==
  /\ Done /\ ValidContainer /\ Len(JxlBoxes) = 4
  /\ JxlBoxes[2].boxtype = jxlp /\ JxlBoxes[3].boxtype \notin {jxlc, jxlp} /\ JxlBoxes[4].boxtype = jxlp
  /\ Len(scan.dst.data) = 2

IsCodestream == Len(src) >= 2 /\ SubSeq(src, 1, 2) = <<255, 10>>

\* addContainer has returned 0
Wrapped == scan.pc \in {"returned", "extracted"} /\ scan.result = Some(0)

\* C24: for every codestream beginning with FF 0A, every list of split
\* offsets within it (any order, duplicates, or none) and every level,
\* given or not, addContainer returns 0 and extractJxlCodestream applied to
\* its output returns 0 and yields exactly the codestream, whether or not
\* the input size is known and whether or not the output is seekable.
C24_WrapExtractRoundTrip ==
  /\ (IsCodestream /\ scan.pc \in {"returned", "raised", "extracted"}) => Wrapped
  /\ scan.pc = "extracted" => Val(scan.out) = [result |-> Some(0), exc |-> "", data |-> src]

\* a four-byte codestream wrapped with a level and with splits out of
\* order at 3 and 1, input size unknown, output not seekable, and extracted
C24_Witness ==
  /\ scan.pc = "extracted" /\ Len(src) = 4 /\ scan.splits = Some(<<3, 1>>) /\ scan.jxll # None
  /\ ~scan.known /\ ~scan.dst.seekable

\* the offsets of l in nondecreasing order
InOrder(l) == CHOOSE p \in [1..Len(l) -> {l[i] : i \in 1..Len(l)}] :
                /\ \A i \in 1..(Len(l) - 1) : p[i] <= p[i + 1]
                /\ \A v \in {l[i] : i \in 1..Len(l)} : Cardinality({i \in 1..Len(l) : l[i] = v}) = Cardinality({i \in 1..Len(l) : p[i] = v})

\* the jxlp boxes that cut src at the offsets offs, from the k-th on
RECURSIVE Parts(_, _, _)
Parts(offs, k, lastOff) ==
  IF k > Len(offs) THEN <<[boxtype |-> jxlp, payload |-> <<128, 0, 0, k - 1>> \o From(src, lastOff), ext |-> FALSE]>>
  ELSE <<[boxtype |-> jxlp, payload |-> <<0, 0, 0, k - 1>> \o SubSeq(src, lastOff + 1, offs[k]), ext |-> FALSE]>> \o Parts(offs, k + 1, offs[k])

\* the boxes that follow the signature
WrapBoxes ==
  <<[boxtype |-> ftyp, payload |-> <<106, 120, 108, 32, 0, 0, 0, 0, 106, 120, 108, 32>>, ext |-> FALSE]>>
  \o (IF scan.jxll = None THEN <<>> ELSE <<[boxtype |-> jxll, payload |-> <<Val(scan.jxll)>>, ext |-> FALSE]>>)
  \o (IF scan.splits = None THEN <<[boxtype |-> jxlc, payload |-> src, ext |-> FALSE]>> ELSE Parts(InOrder(Val(scan.splits)), 1, 0))

LastBoxStart ==
  Len(JXL_CONTAINER_SIG) + 20 + (IF scan.jxll = None THEN 0 ELSE 9)
  + (IF scan.splits = None \/ Val(scan.splits) = <<>> THEN 0 ELSE 12 * Len(Val(scan.splits)) + InOrder(Val(scan.splits))[Len(Val(scan.splits))])

\* the size that the header of the last box declares, and the box's length
LastBoxSizeField ==
  IF SubSeq(scan.dst.data, LastBoxStart + 1, LastBoxStart + 4) = <<0, 0, 0, 1>>
  THEN [neg |-> FALSE, mag |-> <<0>> \o SubSeq(scan.dst.data, LastBoxStart + 9, LastBoxStart + 16)]
  ELSE [neg |-> FALSE, mag |-> <<0, 0, 0, 0, 0>> \o SubSeq(scan.dst.data, LastBoxStart + 1, LastBoxStart + 4)]

LastBoxLength == WideAdd(scan.dst.fill, Len(scan.dst.data) - LastBoxStart)

\* C26 as stated: after addContainer returns 0 the size field of the last
\* box is the box's length whenever the input size is known or the output
\* is seekable, the output position being its end, and 0 only when neither
\* holds.
C26_LastBoxSize ==
  Wrapped => IF scan.known \/ scan.dst.seekable
             THEN LastBoxSizeField = LastBoxLength /\ scan.dst.pos = Len(scan.dst.data)
             ELSE LastBoxSizeField = Wide(0)

\* C26: after addContainer returns 0 the size field of the last box is the
\* box's length whenever the input size is known, or the output is seekable
\* and the box is no longer than 0xFFFFFFFF bytes, the output position being
\* its end; otherwise the size field is 0.
C26_LastBoxSizeWithinField ==
  Wrapped => /\ scan.dst.pos = Len(scan.dst.data)
             /\ IF scan.known \/ (scan.dst.seekable /\ WideLE(LastBoxLength, BIG_SIZE))
                THEN LastBoxSizeField = LastBoxLength
                ELSE LastBoxSizeField = Wide(0)

\* input size unknown, output seekable: the size of a jxlc box of
\* 0xFFFFFFFF bytes has been set afterwards
C26_Witness == Wrapped /\ ~scan.known /\ scan.dst.seekable /\ scan.splits = None /\ LastBoxSizeField = BIG_SIZE

\* ------------------------------------------------------------------------
\* Claims about _writeBoxes (under SpecWriteBoxes)
\* ------------------------------------------------------------------------

\* the descriptor that the last step of the call handled
Handled == scan.prev # scan.w /\ scan.prev.boxi < Len(scan.boxes)

HandledBox == scan.boxes[scan.prev.boxi + 1]

\* a descriptor TYPE=text
IsLiteral(d) == Len(d) >= 5 /\ d[5] = 61

\* a descriptor TYPE@file whose file is there and open
IsFile(d) == Len(d) >= 5 /\ d[5] = 64 /\ (From(d, 5) = <<97>> \/ (From(d, 5) = <<45>> /\ ~scan.prev.stdinClosed))

\* its size cannot be known before it is written: the content comes from a
\* stream that is not seekable, or file content is being compressed
SizeUnknown(d) == IsFile(d) /\ (From(d, 5) = <<45>> \/ compOpts.compressWhen # COMPRESS_NEVER)

\* the box is the last of the whole output
HandledLast == scan.atEnd /\ scan.prev.boxi = Len(scan.boxes) - 1

\* the step has written the box and the call goes on
HandledWritten == scan.w.exc = "" /\ scan.w.ret = None /\ scan.w.boxi = scan.prev.boxi + 1 /\ Len(scan.w.dst.data) > Len(scan.prev.dst.data)

\* C29: when the size of a new box cannot be known before it is written
\* and the output is not seekable, _writeBoxes writes the box only if it is
\* the last box of the whole output, and then with size field 0; otherwise
\* UnseekableOutputError is raised and no byte of the box is written.  A
\* box given as text is written at any position of an output that is not
\* seekable, compressed or not.
C29_UnknownSizeOnUnseekable ==
  (Handled /\ ~scan.prev.dst.seekable) =>
     /\ SizeUnknown(HandledBox) =>
          IF HandledLast
          THEN HandledWritten /\ SubSeq(scan.w.dst.data, scan.prev.dst.pos + 1, scan.prev.dst.pos + 4) = <<0, 0, 0, 0>>
          ELSE scan.w.exc = "UnseekableOutputError" /\ scan.w.dst = scan.prev.dst
     /\ IsLiteral(HandledBox) => HandledWritten

\* ------------------------------------------------------------------------
\* doAddBoxes: where the new boxes go
\* ------------------------------------------------------------------------

\* the boxes of the input
AddInput == CHOOSE bs \in AddBoxLists : \E imp \in BOOLEAN : src = EncodeStream(bs, imp)

\* the call has ended, by a return or by an exception
AddDone == scan.pc \in {"returned", "raised"}

AddReturned(v) == scan.pc = "returned" /\ scan.result = Some(v)

\* the type and content a descriptor asks for: utf8=e-acute in UTF-8, the
\* content of file "a", the content of standard input
AddAsked(d) ==
  CASE d = <<117, 116, 102, 56, 61, 233>> -> [boxtype |-> <<117, 116, 102, 56>>, content |-> <<195, 169>>]
    [] d = <<65, 66, 79, 88, 64, 97>> -> [boxtype |-> <<65, 66, 79, 88>>, content |-> <<120, 121>>]
    [] d = <<83, 66, 79, 88, 64, 45>> -> [boxtype |-> <<83, 66, 79, 88>>, content |-> <<122>>]

\* the descriptors can all be served: each has a type and a content, and
\* standard input is named at most once
AddServable == (\A k \in 1..Len(scan.newboxes) : scan.newboxes[k] # <<97, 98, 61>>) /\ Cardinality({k \in 1..Len(scan.newboxes) : scan.newboxes[k] = <<83, 66, 79, 88, 64, 45>>}) <= 1

\* the size of every new box is known before the box is written
AddSizesKnown == \A k \in 1..Len(scan.newboxes) : scan.newboxes[k][5] = 61 \/ (scan.newboxes[k] = <<65, 66, 79, 88, 64, 97>> /\ compOpts.compressWhen = COMPRESS_NEVER)

\* box b of the output is the input's box o
AddIsOld(b, o) == b.boxtype = o.boxtype /\ RefPayload(scan.dst.data, b) = o.payload

\* box b of the output is the box descriptor d asks for, as it is or
\* Brotli-compressed in a brob box
AddIsNew(b, d) ==
  \/ b.boxtype = AddAsked(d).boxtype /\ RefPayload(scan.dst.data, b) = AddAsked(d).content
  \/ b.boxtype = brob /\ RefPayload(scan.dst.data, b) = AddAsked(d).boxtype \o BrotliCompress(AddAsked(d).content) \o BrotliFinish

\* the output is the input's boxes with the new boxes before box n
AddInsertedAt(n) ==
  LET out == Ref(scan.dst.data)
      old == AddInput
      new == scan.newboxes
  IN /\ out.why = ""
     /\ Len(out.boxes) = Len(old) + Len(new)
     /\ \A k \in 1..Len(out.boxes) :
          IF k <= n THEN AddIsOld(out.boxes[k], old[k])
          ELSE IF k <= n + Len(new) THEN AddIsNew(out.boxes[k], new[k - n])
          ELSE AddIsOld(out.boxes[k], old[k - Len(new)])

\* the last box of the input has size 0, neither the input size is known
\* nor the output seekable, and new boxes are to follow it
AddCannotSetSize == ImplicitLast(src) /\ ~scan.known /\ ~scan.dst.seekable /\ Len(scan.newboxes) > 0 /\ scan.at \in {-1, Len(AddInput)}

\* C27: doAddBoxes with at = N, 0 <= N <= box count, writes the input's
\* boxes 0..N-1, the new boxes in order, then the input's boxes N.. with
\* their types and payloads; at = -1 puts the new boxes after the last
\* box; at greater than the box count makes it return non-zero.  A call
\* with a position in range and new boxes that can be written returns 0.
C27_InsertPosition ==
  (AddDone /\ scan.infill = Wide(0)) =>
     /\ AddReturned(0) => scan.at <= Len(AddInput) /\ AddInsertedAt(IF scan.at = -1 THEN Len(AddInput) ELSE scan.at)
     /\ scan.at > Len(AddInput) => scan.pc = "returned" /\ scan.result # Some(0)
     /\ (scan.at <= Len(AddInput) /\ AddServable /\ (scan.dst.seekable \/ AddSizesKnown) /\ ~AddCannotSetSize) => AddReturned(0)

\* ------------------------------------------------------------------------
\* doAddBoxes: the last box of the input when its size field is 0
\* ------------------------------------------------------------------------

\* the last box of the input
AddLast == AddInput[Len(AddInput)]

\* where it starts in the input
AddLastStart == Len(src) - Len(AddLast.payload) - (IF AddLast.ext THEN 16 ELSE 8)

\* the copy loop has copied the box of size 0
AddImplicitCopied == scan.box # None /\ Val(scan.box).length = 0 /\ (scan.rd._clientIsReadingFull \/ scan.rd._clientIsReadingPayload)

\* nothing has been written after the copy of the input's last box
AddLastIsTail == scan.pc = "after" \/ ~scan.appendingBoxes

\* the output ends with the input's last box under a header of h bytes
\* that states its size
AddTailSized(h) ==
  LET out == scan.dst.data
      s == Len(out) - Len(AddLast.payload) - h
      total == WideAdd(scan.infill, h + Len(AddLast.payload))
  IN /\ s >= 0
     /\ scan.dst.fill = scan.infill
     /\ Slice(out, s + 4, s + 8) = AddLast.boxtype
     /\ Slice(out, s + h, Len(out)) = AddLast.payload
     /\ IF h = 8 THEN PackI(total) # <<>> /\ Slice(out, s, s + 4) = PackI(total)
        ELSE Slice(out, s, s + 4) = <<0, 0, 0, 1>> /\ Slice(out, s + 8, s + 16) = PackQ(total)

\* the output ends with the input's last box as it was, size field 0
AddTailUnchanged ==
  /\ scan.dst.fill = scan.infill
  /\ Len(scan.dst.data) >= Len(src) - AddLastStart
  /\ Slice(scan.dst.data, Len(scan.dst.data) - (Len(src) - AddLastStart), Len(scan.dst.data)) = Slice(src, AddLastStart, Len(src))

\* the size that the header at offset s of the output states is not 0
AddSizeStated(s) ==
  LET field == IF Slice(scan.dst.data, s, s + 4) = <<0, 0, 0, 1>> THEN Slice(scan.dst.data, s + 8, s + 16) ELSE Slice(scan.dst.data, s, s + 4)
  IN \E k \in 1..Len(field) : field[k] # 0

\* C28: when the last box of the input has size 0, doAddBoxes writes it
\* with its size stated if the input size is known or the output is
\* seekable, whether or not boxes are added; with neither, it returns
\* non-zero if boxes are to follow the box, and copies the box as it is,
\* size 0, and returns 0 if nothing follows it.  In a call that returns 0
\* the copy of that box has size 0 only where it ends the output.
C28_ImplicitLastBox ==
  ImplicitLast(src) =>
     /\ (AddImplicitCopied /\ AddLastIsTail /\ (scan.known \/ scan.dst.seekable)) => AddTailSized(8) \/ AddTailSized(16)
     /\ (AddDone /\ AddCannotSetSize) => scan.pc = "returned" /\ scan.result # Some(0)
     /\ (AddDone /\ ~scan.known /\ ~scan.dst.seekable /\ ~AddCannotSetSize /\ scan.at <= Len(AddInput) /\ AddServable /\ AddSizesKnown)
           => AddReturned(0) /\ AddTailUnchanged
     /\ (AddReturned(0) /\ Len(scan.newboxes) > 0 /\ scan.at \in {-1, Len(AddInput)})
           => AddSizeStated(AddLastStart)

\* ------------------------------------------------------------------------
\* CatReader and the files it was given (SpecCat)
\* ------------------------------------------------------------------------

\* input k is a file object of the caller, not a bytes object
CallerFile(k) == ~src[k].bytes

\* C31: with closeFiles false the reader never closes a file object that
\* the caller supplied, whatever is called on it; with closeFiles true,
\* once the reader is closed every file object that the caller supplied is
\* closed, whatever reads and seeks came before.
C31_StreamOwnership ==
  /\ ~scan.closeFiles => \A k \in 1..Len(src) : CallerFile(k) => ~scan.cat._files[k].closed
  /\ (scan.closeFiles /\ scan.cat.closed) => \A k \in 1..Len(src) : CallerFile(k) => scan.cat._files[k].closed

\* ------------------------------------------------------------------------
\* doCount: what it returns and writes (SpecCount)
\* ------------------------------------------------------------------------

CountDone == scan.pc \in {"returned", "raised"}

CountReturned(v) == scan.pc = "returned" /\ scan.result = Some(v)

\* every selector of the call is one
CountSelectorsValid == scan.strings # Some(<<<<122, 122, 61, 49>>>>)

\* file k of the call can be read: it is there, and standard input is not
\* named a second time
CountReadable(k) == scan.filenames[k] # <<109>> /\ ~(scan.filenames[k] = <<45>> /\ \E j \in 1..(k - 1) : scan.filenames[j] = <<45>>)

\* what file k holds
CountHolds(k) == IF scan.filenames[k] = <<45>> THEN src.stdin ELSE src.a

\* the number of boxes of data that the selectors accept
CountAccepted(data) == Cardinality({k \in 1..Len(Ref(data).boxes) : RefAccepts(scan.strings, Ref(data).boxes, k)})

\* what a count of the files from k on writes: a count on a line for each,
\* after the file name when there are several files or verbose is set
RECURSIVE CountLines(_)
CountLines(k) ==
  IF k > Len(scan.filenames) THEN <<>>
  ELSE (IF scan.verbose \/ Len(scan.filenames) > 1 THEN scan.filenames[k] \o <<58, 32>> ELSE <<>>) \o Str(CountAccepted(CountHolds(k))) \o <<10>> \o CountLines(k + 1)

\* C32: doCount with justCheck returns 0 exactly when every file named
\* holds at least one box that the selectors accept; without justCheck it
\* returns 0 whenever every file was counted, even with no box accepted,
\* and has written the counts; in every other case it returns 1.
C32_CountReturnValue ==
  CountDone =>
     /\ scan.justCheck => (CountReturned(0) <=> (CountSelectorsValid /\ \A k \in 1..Len(scan.filenames) : CountReadable(k) /\ CountAccepted(CountHolds(k)) > 0))
     /\ (~scan.justCheck /\ CountSelectorsValid /\ \A k \in 1..Len(scan.filenames) : CountReadable(k) /\ WellFormed(CountHolds(k)))
           => CountReturned(0) /\ scan.out = CountLines(1)
     /\ ~CountReturned(0) => CountReturned(1)

\* ------------------------------------------------------------------------
\* C33: the boxes nextBox returns, and the end of the stream
\* ------------------------------------------------------------------------

\* the last nextBox returned a box: it is the reader's current box
GaveBox(s) == s.op = "nextBox" /\ s.exc = "" /\ s.box = "open"

GivenBox(s) == Val(s.rd._currentBoxDetail)

\* a byte that is a printable ASCII character (space to tilde)
PrintableByte(b) == b >= 32 /\ b <= 126

\* the box has four printable type bytes and a length of 0 or of at least
\* its header
BoxIsSound(b) ==
  /\ Len(b.boxtype) = 4
  /\ \A k \in 1..4 : PrintableByte(b.boxtype[k])
  /\ b.length = 0 \/ b.length >= (IF b.hasExtendedSize THEN 16 ELSE 8)

\* the client has been given a box before, the last of them of length 0
LastWasImplicit(s) == s.box = "open" /\ s.rd._currentBoxDetail # None /\ GivenBox(s).length = 0

\* C33: every box returned by nextBox has a type of four printable ASCII
\* bytes and a length that is 0 or at least its header size (8, or 16 with
\* an extended size); no box is returned after a box of length 0; and once
\* nextBox has returned None every later nextBox returns None again, on
\* well-formed and on damaged files, whatever the client read in between
C33_ReturnedBoxes ==
  [][Called({"nextBox"}) =>
       /\ GaveBox(scan') => BoxIsSound(GivenBox(scan'))
       /\ LastWasImplicit(scan) => ~GaveBox(scan')
       /\ scan.box = "closed" => scan'.box = "closed" /\ scan'.exc = ""]_vars

\* nextBox was called once more after the end of the stream
C33_Witness ==
  /\ scan.op = "nextBox"
  /\ scan.box = "closed"
  /\ scan.rd._index = -1
  /\ scan.rd._currentBoxDetail # None
  /\ GivenBox(scan).length = 0
  /\ GivenBox(scan).hasExtendedSize

\* ------------------------------------------------------------------------
\* C34: the boxes returned do not depend on what the client read
\* ------------------------------------------------------------------------

\* where the box that nextBox returns next starts: at 0 for the first box,
\* else where the box returned before ends
NextStart(s) == IF s.rd._currentBoxDetail = None THEN 0 ELSE GivenBox(s).offset + GivenBox(s).length

\* the box of the input that starts at offset off, as nextBox reports it
DetailAt(data, off) == BoxDetails(off, RefBox(data, off).length, RefBox(data, off).boxtype, RefBox(data, off).ext)

BoxAtHand(s) == s.rd._currentBoxDetail # None /\ s.rd._clientBoxDataOffset >= 0 /\ ~s.failed

\* where the box at hand ends: an implicit-size box ends with the input
BoxEnd(s) == IF GivenBox(s).length = 0 THEN Len(src) ELSE GivenBox(s).offset + GivenBox(s).length

\* bytes of the box, and of its payload, the client has not been given yet
\* (_clientBoxDataOffset counts box bytes in full mode, payload bytes in
\* payload mode)
BoxLeft(s) == BoxEnd(s) - GivenBox(s).offset - s.rd._clientBoxDataOffset

PayloadLeft(s) == BoxEnd(s) - GivenBox(s).offset - Len(Val(s.rd._currentBoxHeader)) - s.rd._clientBoxDataOffset

\* bytes the call has given to the client
Given == scan'.rd._clientBoxDataOffset - scan.rd._clientBoxDataOffset

\* C35: readCurrentBox(n) and readCurrentBoxPayload(n) with n >= 0, called
\* on a box at hand in the read mode of that box, raise nothing and return
\* n bytes, or what is left of the box (of the payload) when that is less
\* than n: for explicitly sized boxes and for the implicit-size last box
C35_ReadReturnsUpToN ==
  [][/\ (Called({"readCurrentBox"}) /\ scan'.n >= 0 /\ BoxAtHand(scan) /\ ~scan.rd._clientIsReadingPayload)
          => (scan'.exc = "" /\ Given = Min(scan'.n, BoxLeft(scan)))
     /\ (Called({"readCurrentBoxPayload"}) /\ scan'.n >= 0 /\ BoxAtHand(scan) /\ ~scan.rd._clientIsReadingFull)
          => (scan'.exc = "" /\ Given = Min(scan'.n, PayloadLeft(scan)))]_vars

\* ------------------------------------------------------------------------
\* C36: the peek at a brob box
\* ------------------------------------------------------------------------

\* the scan stands at the head of the loop body with a brob box
AtBrob == scan.pc = "peek" /\ Val(scan.box).boxtype = brob

BrobHeader == IF Val(scan.box).hasExtendedSize THEN 16 ELSE 8

\* where the payload of the brob box starts and where its bytes in the input
\* end (a box of length 0 runs to the end of the input)
BrobPayloadStart == Val(scan.box).offset + BrobHeader

BrobPayloadEnd == IF Val(scan.box).length = 0 THEN Len(src) ELSE Min(Val(scan.box).offset + Val(scan.box).length, Len(src))

\* the 4 bytes after the header
BrobInner == Slice(src, BrobPayloadStart, BrobPayloadStart + 4)

\* the box has 4 payload bytes or more, the first 4 a valid 4CC
BrobSound == BrobPayloadEnd - BrobPayloadStart >= 4 /\ Len(BrobInner) = 4 /\ \A k \in 1..4 : PrintableByte(BrobInner[k])

\* C36: at a brob box with 4 payload bytes or more that start with a valid
\* 4CC, explicitly sized or of length 0, the scan reads the header and 4
\* bytes and no more (12 or 20 bytes buffered), takes these 4 bytes for the
\* inner type and goes on to the loop body; so that InvalidBmff rejects a
\* brob box only when it has fewer than 4 payload bytes or no valid inner
\* type
C36_BrobPeek ==
  [][(AtBrob /\ BrobSound) =>
       /\ scan'.pc = "body"
       /\ scan'.innerType = BrobInner
       /\ Len(scan'.boxStart) = BrobHeader + 4
       /\ scan'.rd._off = BrobPayloadStart + 4]_vars

\* ------------------------------------------------------------------------
\* C37: what getAction selects
\* ------------------------------------------------------------------------

ActionAsked == scan.pc = "asked"

\* the action is a compression
IsCompression(a) == a \in {COMPRESS_AUTO, COMPRESS_ALWAYS}

\* the outer type is protected: its lower case begins with 'jxl', or it is
\* ftyp or jbrd
ProtectedOuter(t) == (\A k \in 1..3 : LowerChar(t[k]) = <<106, 120, 108>>[k]) \/ t = <<102, 116, 121, 112>> \/ t = <<106, 98, 114, 100>>

\* the selector list accepts the box asked about (no list accepts every box)
ActionAccepts(list) == list = None \/ AnyMatches(Val(list), scan.i, Val(scan.box), scan.innerType, scan.instance)

\* compression, and decompression, applies to the box asked about
CompressionApplies ==
  /\ compOpts.compressWhen # COMPRESS_NEVER
  /\ ProtectedOuter(Val(scan.box).boxtype) => (~compOpts.protectJxl /\ compOpts.compressWhen # COMPRESS_AUTO)
  /\ Val(scan.box).boxtype = brob => compOpts.recompress
  /\ ActionAccepts(compOpts.compressBoxes)

DecompressionApplies ==
  /\ compOpts.decompressWhen # DECOMPRESS_NEVER
  /\ Val(scan.box).boxtype = brob
  /\ ActionAccepts(compOpts.decompressBoxes)

\* C37: getAction selects no compression for a box with a protected outer
\* type while protectJxl is true, nor under COMPRESS_AUTO whatever
\* protectJxl is; no compression for a brob box unless recompress is true;
\* decompression only for a brob box that the decompress selector list
\* accepts; and compression (compressWhen itself) when compression and
\* decompression both apply
C37_ActionSelected ==
  ActionAsked =>
    /\ (ProtectedOuter(Val(scan.box).boxtype) /\ (compOpts.protectJxl \/ compOpts.compressWhen = COMPRESS_AUTO)) => ~IsCompression(Val(scan.compAction))
    /\ (Val(scan.box).boxtype = brob /\ ~compOpts.recompress) => ~IsCompression(Val(scan.compAction))
    /\ Val(scan.compAction) = DECOMPRESS_ALWAYS => DecompressionApplies
    /\ (CompressionApplies /\ DecompressionApplies) => (IsCompression(Val(scan.compAction)) /\ Val(scan.compAction) = compOpts.compressWhen)

\* a brob box to which both apply, and a protected box under COMPRESS_AUTO
\* with protectJxl false
C37_Witness ==
  /\ ActionAsked
  /\ CompressionApplies
  /\ DecompressionApplies
  /\ Val(scan.compAction) = COMPRESS_AUTO
  /\ ~compOpts.protectJxl
  /\ compOpts.compressBoxes # None
  /\ compOpts.decompressBoxes # None

\* ------------------------------------------------------------------------
\* C38: a last box of size 0 under a 16-byte header
\* ------------------------------------------------------------------------

\* doAddBoxes has copied the input's last box, which states the size 0 in
\* the 64-bit field of a 16-byte header, and nothing was written after it
AddExtendedImplicitCopied == ImplicitLast(src) /\ AddLast.ext /\ AddImplicitCopied /\ AddLastIsTail /\ scan.exc = ""

C38_FilterKeepsExtended ==
  [][(/\ scan.pc = "body"
      /\ mode \in {MODE_KEEP, MODE_DROP}
      /\ Val(scan.box).length = 0
      /\ Val(scan.box).hasExtendedSize
      /\ Len(scan'.dst.data) > Len(scan.dst.data))
        => From(scan'.dst.data, Len(scan.dst.data)) = Slice(src, Val(scan.box).offset, Len(src))]_vars

\* ------------------------------------------------------------------------
\* C39: the reader stays inside an explicitly sized box
\* ------------------------------------------------------------------------

\* nextBox has returned a box with its size stated
ExplicitAtHand == scan.rd._currentBoxDetail # None /\ GivenBox(scan).length > 0

\* the reader's offset is past the header of that box and not past its end
InsideBox ==
  /\ GivenBox(scan).offset + (IF GivenBox(scan).hasExtendedSize THEN 16 ELSE 8) <= scan.rd._off
  /\ scan.rd._off <= GivenBox(scan).offset + GivenBox(scan).length

\* the distance the next nextBox skips is not negative
SkipForward == scan.rd._nextBoxOffset # None => Val(scan.rd._nextBoxOffset) - scan.rd._off >= 0

CatCallHangs == scan.pc = "hung"

\* C40: over finite inputs every loop over the input stops: each read and
\* each seek call on a CatReader returns or raises, whatever the files
\* (seekable or not) and whatever the calls made before
C40_LoopsStop == ~CatCallHangs

\* C40, the part about nextBox: a nextBox call that returns a box has
\* moved the file on by at least the 8 bytes of a header, on well-formed
\* and on damaged files, as long as no call has raised before
C40_NextBoxConsumesHeader ==
  [][(Called({"nextBox"}) /\ ~scan.failed /\ GaveBox(scan')) => scan'.rd.pos >= scan.rd.pos + 8]_vars

=============================================================================
